---- MODULE Spec2Model ----
(***************************************************************************)
(* A model of the ABI codec of ethers-next (abi/enc): the Token value      *)
(* model, the type descriptors, the head/tail encoder, the offset driven   *)
(* decoder in its lenient and validating modes, and the SolType            *)
(* descriptors with their tokenize and detokenize.                         *)
(*                                                                         *)
(* Bytes are naturals 0..255, a Word is a sequence of 32 bytes, a buffer   *)
(* is a sequence of bytes.  Sequences are 1-based here and 0-based in the  *)
(* source: byte i of the source is element i+1 of the model.               *)
(***************************************************************************)
EXTENDS Integers, Sequences, FiniteSets, TLC

VARIABLES
    usize_bits,       \* width of usize on the build target (32 or 64)
    overflow_checks,  \* TRUE: arithmetic overflow panics (debug build); FALSE: it wraps
    types,            \* the ParamType list handed to decode / decode_validate
    tokens,           \* the Token list handed to encode
    data,             \* the byte buffer handed to the decoder
    tamper,           \* what was done to the encoder's output before decoding
    pc,               \* position in the encode -> decode -> decode_validate pipeline
    res,              \* result of decode(types, data)
    vres,             \* result of decode_validate(types, data)
    rres,             \* result of SolType::read_token(data, 0) for the one type
    sol,              \* a compile-time SolType descriptor
    native,           \* a native (Rust) value of sol's RustType
    stoken,           \* SolType::tokenize(native)
    sback,            \* SolType::detokenize(stoken)
    spc,              \* position in the tokenize -> detokenize pipeline
    dfields,          \* the fields of a struct deriving SolAbiType
    dnamed,           \* TRUE: a struct with named fields; FALSE: a tuple struct
    dtoken,           \* what the derived to_token returned
    dpc,              \* position in the derive -> to_token pipeline
    cstate,           \* the variant of the CallState
    cmethod,          \* the method of the call
    cparams,          \* the params of the call
    cid,              \* the id of the call
    crequests,        \* the requests handed to Connection::json_rpc_request
    cwakes,           \* how often the waker of the task was woken
    cret,             \* what the last poll returned
    cpolls            \* how often the call was polled

vars == <<usize_bits, overflow_checks, types, tokens, data, tamper, pc, res, vres,
          rres, sol, native, stoken, sback, spc, dfields, dnamed, dtoken, dpc,
          cstate, cmethod, cparams, cid, crequests, cwakes, cret, cpolls>>

codec_vars == <<usize_bits, overflow_checks, types, tokens, data, tamper, pc, res, vres,
                rres>>

sol_vars == <<sol, native, stoken, sback, spc>>

derive_vars == <<dfields, dnamed, dtoken, dpc>>

call_vars == <<cstate, cmethod, cparams, cid, crequests, cwakes, cret, cpolls>>

(***************************************************************************)
(* Program constants.                                                      *)
(***************************************************************************)
WordLen == 32

(***************************************************************************)
(* Bytes and words.                                                        *)
(***************************************************************************)
Zeros(n) == [i \in 1..n |-> 0]

WordDefault == Zeros(WordLen)

repeat_byte(b) == [i \in 1..WordLen |-> b]

\* util::pad_u32: the u32 big-endian in the last four bytes of a zero word.
pad_u32(v) ==
    [i \in 1..WordLen |->
        CASE i = 29 -> (v \div 16777216) % 256
          [] i = 30 -> (v \div 65536) % 256
          [] i = 31 -> (v \div 256) % 256
          [] i = 32 -> v % 256
          [] OTHER  -> 0]

RECURSIVE Flatten(_)
Flatten(words) ==
    IF words = <<>> THEN <<>> ELSE Head(words) \o Flatten(Tail(words))

(***************************************************************************)
(* Token (token.rs): a tagged value.  Every record carries all fields so   *)
(* that any two tokens can be compared.                                    *)
(***************************************************************************)
Word(w)       == [tag |-> "Word",      word |-> w,    seq |-> <<>>, bytes |-> <<>>]
FixedSeq(ts)  == [tag |-> "FixedSeq",  word |-> <<>>, seq |-> ts,   bytes |-> <<>>]
DynSeq(ts)    == [tag |-> "DynSeq",    word |-> <<>>, seq |-> ts,   bytes |-> <<>>]
PackedSeq(bs) == [tag |-> "PackedSeq", word |-> <<>>, seq |-> <<>>, bytes |-> bs]

NoToken == [tag |-> "None", word |-> <<>>, seq |-> <<>>, bytes |-> <<>>]

\* Token::is_dynamic
RECURSIVE Token_is_dynamic(_)
Token_is_dynamic(token) ==
    CASE token.tag \in {"DynSeq", "PackedSeq"} -> TRUE
      [] token.tag = "FixedSeq" ->
            \E i \in 1..Len(token.seq) : Token_is_dynamic(token.seq[i])
      [] OTHER -> FALSE

(***************************************************************************)
(* ParamType: the runtime type descriptor.  n is the bit width of Int and  *)
(* Uint, the byte length of FixedBytes, the length of FixedArray; sub is   *)
(* the element type of Array and FixedArray and the fields of Tuple.       *)
(***************************************************************************)
PT(k, n, sub) == [k |-> k, n |-> n, sub |-> sub]

Address       == PT("Address", 0, <<>>)
Bool          == PT("Bool", 0, <<>>)
IntN(n)       == PT("Int", n, <<>>)
UintN(n)      == PT("Uint", n, <<>>)
FixedBytes(n) == PT("FixedBytes", n, <<>>)
Bytes         == PT("Bytes", 0, <<>>)
String        == PT("String", 0, <<>>)
Array(t)      == PT("Array", 0, <<t>>)
FixedArray(t, n) == PT("FixedArray", n, <<t>>)
Tuple(ts)     == PT("Tuple", 0, ts)

\* ParamType::is_dynamic
RECURSIVE ParamType_is_dynamic(_)
ParamType_is_dynamic(param) ==
    CASE param.k \in {"Bytes", "String", "Array"} -> TRUE
      [] param.k = "FixedArray" -> ParamType_is_dynamic(param.sub[1])
      [] param.k = "Tuple" ->
            \E i \in 1..Len(param.sub) : ParamType_is_dynamic(param.sub[i])
      [] OTHER -> FALSE

\* ParamType::is_empty_bytes_valid_encoding
is_empty_bytes_valid_encoding(param) ==
    param.k = "FixedArray" /\ param.n = 0

\* Token::type_check
RECURSIVE type_check(_, _)
type_check(token, param_type) ==
    CASE param_type.k \in {"Address", "Int", "Uint", "Bool", "FixedBytes"} ->
            token.tag = "Word"
      [] param_type.k \in {"Bytes", "String"} -> token.tag = "PackedSeq"
      [] param_type.k = "Array" ->
            /\ token.tag = "DynSeq"
            /\ \A i \in 1..Len(token.seq) : type_check(token.seq[i], param_type.sub[1])
      [] param_type.k = "FixedArray" ->
            /\ token.tag = "FixedSeq"
            /\ Len(token.seq) = param_type.n
            /\ \A i \in 1..Len(token.seq) : type_check(token.seq[i], param_type.sub[1])
      [] param_type.k = "Tuple" ->
            /\ token.tag = "FixedSeq"
            /\ Len(token.seq) = Len(param_type.sub)
            /\ \A i \in 1..Len(token.seq) : type_check(token.seq[i], param_type.sub[i])
      [] OTHER -> FALSE

\* Token::types_check
types_check(toks, param_types) ==
    /\ Len(param_types) = Len(toks)
    /\ \A i \in 1..Len(toks) : type_check(toks[i], param_types[i])

(***************************************************************************)
(* Encoder (encoder.rs).  The accumulator `acc` is a sequence of words;    *)
(* an append returns the extended accumulator.                             *)
(***************************************************************************)
\* What the panic! of encode_token_append leaves in place of a word.
Poison == <<-1>>

pad_bytes_len(bytes) == (Len(bytes) + 31) \div 32 + 1

\* fixed_bytes_append copying bytes.len() % 32 bytes into the last word, with
\* no case for a payload that fills it
fixed_bytes_append_short_last(result, bytes) ==
    LET len == (Len(bytes) + 31) \div 32
        to_copy(i) == IF i = len - 1 THEN Len(bytes) % 32 ELSE 32
        padded(i) == [j \in 1..WordLen |->
                        IF j <= to_copy(i) THEN bytes[32 * i + j] ELSE 0]
    IN  result \o [i \in 1..len |-> padded(i - 1)]

fixed_bytes_append(result, bytes) ==
    LET len == (Len(bytes) + 31) \div 32
        to_copy(i) == IF i = len - 1
                      THEN (IF Len(bytes) % 32 = 0 THEN 32 ELSE Len(bytes) % 32)
                      ELSE 32
        padded(i) == [j \in 1..WordLen |->
                        IF j <= to_copy(i) THEN bytes[32 * i + j] ELSE 0]
    IN  result \o [i \in 1..len |-> padded(i - 1)]

pad_bytes_append(acc, bytes) ==
    fixed_bytes_append(Append(acc, pad_u32(Len(bytes))), bytes)

encode_token_append(acc, token) ==
    CASE token.tag = "Word"      -> Append(acc, token.word)
      [] token.tag = "PackedSeq" -> pad_bytes_append(acc, token.bytes)
      [] OTHER                   -> Append(acc, Poison)

\* enum Mediate
Mediate(m, len, token, ms) == [m |-> m, len |-> len, token |-> token, ms |-> ms]

RECURSIVE mediate_token(_)
\* mediate_token taking a static FixedSeq for one raw run of words
mediate_token_raw_fixed(token) ==
    CASE token.tag = "Word" -> Mediate("Raw", 1, token, <<>>)
      [] token.tag = "FixedSeq" ->
            LET mediates == [i \in 1..Len(token.seq) |-> mediate_token(token.seq[i])]
            IN  IF Token_is_dynamic(token)
                THEN Mediate("PrefixedArray", 0, NoToken, mediates)
                ELSE Mediate("Raw", Len(token.seq), token, <<>>)
      [] token.tag = "DynSeq" ->
            LET mediates == [i \in 1..Len(token.seq) |-> mediate_token(token.seq[i])]
            IN  Mediate("PrefixedArrayWithLength", 0, NoToken, mediates)
      [] token.tag = "PackedSeq" ->
            Mediate("Prefixed", pad_bytes_len(token.bytes), token, <<>>)

mediate_token(token) ==
    CASE token.tag = "Word" -> Mediate("Raw", 1, token, <<>>)
      [] token.tag = "FixedSeq" ->
            LET mediates == [i \in 1..Len(token.seq) |-> mediate_token(token.seq[i])]
            IN  IF Token_is_dynamic(token)
                THEN Mediate("PrefixedArray", 0, NoToken, mediates)
                ELSE Mediate("RawArray", 0, NoToken, mediates)
      [] token.tag = "DynSeq" ->
            LET mediates == [i \in 1..Len(token.seq) |-> mediate_token(token.seq[i])]
            IN  Mediate("PrefixedArrayWithLength", 0, NoToken, mediates)
      [] token.tag = "PackedSeq" ->
            Mediate("Prefixed", pad_bytes_len(token.bytes), token, <<>>)

RECURSIVE head_len(_)
head_len(m) ==
    LET RECURSIVE sum(_)
        sum(i) == IF i = 0 THEN 0 ELSE sum(i - 1) + head_len(m.ms[i])
    IN  CASE m.m = "Raw"      -> 32 * m.len
          [] m.m = "RawArray" -> sum(Len(m.ms))
          [] OTHER            -> 32

RECURSIVE tail_len(_)
\* tail_len leaving out the length word of a dynamic sequence
tail_len_without_length_word(m) ==
    LET RECURSIVE fold(_, _)
        fold(init, i) ==
            IF i = 0 THEN init
            ELSE fold(init, i - 1) + head_len(m.ms[i]) + tail_len(m.ms[i])
    IN  CASE m.m \in {"Raw", "RawArray"}       -> 0
          [] m.m = "Prefixed"                  -> 32 * m.len
          [] m.m = "PrefixedArray"             -> fold(0, Len(m.ms))
          [] m.m = "PrefixedArrayWithLength"   -> fold(0, Len(m.ms))

tail_len(m) ==
    LET RECURSIVE fold(_, _)
        fold(init, i) ==
            IF i = 0 THEN init
            ELSE fold(init, i - 1) + head_len(m.ms[i]) + tail_len(m.ms[i])
    IN  CASE m.m \in {"Raw", "RawArray"}       -> 0
          [] m.m = "Prefixed"                  -> 32 * m.len
          [] m.m = "PrefixedArray"             -> fold(0, Len(m.ms))
          [] m.m = "PrefixedArrayWithLength"   -> fold(32, Len(m.ms))

RECURSIVE head_append(_, _, _)
\* head_append writing an offset word for a RawArray as for the prefixed
\* mediates
head_append_offset_for_raw_array(m, acc, suffix_offset) ==
    CASE m.m = "Raw" -> encode_token_append(acc, m.token)
      [] OTHER       -> Append(acc, pad_u32(suffix_offset))

head_append(m, acc, suffix_offset) ==
    LET RECURSIVE each(_, _)
        each(a, i) == IF i > Len(m.ms) THEN a
                      ELSE each(head_append(m.ms[i], a, 0), i + 1)
    IN  CASE m.m = "Raw"      -> encode_token_append(acc, m.token)
          [] m.m = "RawArray" -> each(acc, 1)
          [] OTHER            -> Append(acc, pad_u32(suffix_offset))

RECURSIVE tail_append(_, _)
RECURSIVE encode_head_tail_append(_, _)
\* encode_head_tail_append with the offset of every head left at heads_len
encode_head_tail_append_stale_offset(acc, mediates) ==
    LET RECURSIVE heads_sum(_)
        heads_sum(i) == IF i = 0 THEN 0 ELSE heads_sum(i - 1) + head_len(mediates[i])
        heads_len == heads_sum(Len(mediates))
        RECURSIVE heads(_, _, _)
        heads(a, offset, i) ==
            IF i > Len(mediates) THEN a
            ELSE heads(head_append(mediates[i], a, offset), offset, i + 1)
        RECURSIVE tails(_, _)
        tails(a, i) == IF i > Len(mediates) THEN a
                       ELSE tails(tail_append(mediates[i], a), i + 1)
    IN  tails(heads(acc, heads_len, 1), 1)

encode_head_tail_append(acc, mediates) ==
    LET RECURSIVE heads_sum(_)
        heads_sum(i) == IF i = 0 THEN 0 ELSE heads_sum(i - 1) + head_len(mediates[i])
        heads_len == heads_sum(Len(mediates))
        RECURSIVE heads(_, _, _)
        heads(a, offset, i) ==
            IF i > Len(mediates) THEN a
            ELSE heads(head_append(mediates[i], a, offset),
                       offset + tail_len(mediates[i]), i + 1)
        RECURSIVE tails(_, _)
        tails(a, i) == IF i > Len(mediates) THEN a
                       ELSE tails(tail_append(mediates[i], a), i + 1)
    IN  tails(heads(acc, heads_len, 1), 1)

\* tail_append pushing the length of a dynamic sequence after its elements
tail_append_length_last(m, acc) ==
    CASE m.m \in {"Raw", "RawArray"} -> acc
      [] m.m = "Prefixed"            -> encode_token_append(acc, m.token)
      [] m.m = "PrefixedArray"       -> encode_head_tail_append(acc, m.ms)
      [] m.m = "PrefixedArrayWithLength" ->
            Append(encode_head_tail_append(acc, m.ms), pad_u32(Len(m.ms)))

tail_append(m, acc) ==
    CASE m.m \in {"Raw", "RawArray"} -> acc
      [] m.m = "Prefixed"            -> encode_token_append(acc, m.token)
      [] m.m = "PrefixedArray"       -> encode_head_tail_append(acc, m.ms)
      [] m.m = "PrefixedArrayWithLength" ->
            encode_head_tail_append(Append(acc, pad_u32(Len(m.ms))), m.ms)

encode_head_tail(mediates) == encode_head_tail_append(<<>>, mediates)

\* encode: the bytes, or Panic when encode_token_append reached its panic!.
encode(toks) ==
    LET mediates == [i \in 1..Len(toks) |-> mediate_token(toks[i])]
        words    == encode_head_tail(mediates)
    IN  IF \E i \in 1..Len(words) : words[i] = Poison
        THEN [tag |-> "Panic", bytes |-> <<>>]
        ELSE [tag |-> "Ok", bytes |-> Flatten(words)]

(***************************************************************************)
(* usize.  as_usize yields values up to 2^32 - 1, so a usize is kept as    *)
(* two 16-bit halves, value = hi * 2^16 + lo.  On a 64-bit target no sum   *)
(* of the decoder leaves the usize range; on a 32-bit target a sum of      *)
(* 2^32 or more panics when the build checks overflow and wraps otherwise. *)
(*                                                                         *)
(* Every step of the decoder yields one shape of result: tag is Ok, the    *)
(* typed error InvalidData or InvalidName, Panic (an arithmetic overflow   *)
(* in a checked build, a slice index out of range) or Huge (a token vector *)
(* of 2^16 elements or more); of the other fields a step fills the ones it *)
(* returns.                                                                *)
(***************************************************************************)
Half == 256 * 256

USize(hi, lo) == [hi |-> hi, lo |-> lo]

usize(n) == USize(n \div Half, n % Half)

usize_le(a, b) == a.hi < b.hi \/ (a.hi = b.hi /\ a.lo <= b.lo)

usize_gt(a, b) == ~usize_le(a, b)

Fail(tag) ==
    [tag |-> tag, bytes |-> <<>>, v |-> USize(0, 0), at |-> USize(0, 0),
     token |-> NoToken, tokens |-> <<>>, new_offset |-> 0]

OkBytes(bs) == [Fail("Ok") EXCEPT !.bytes = bs]

OkUsize(u) == [Fail("Ok") EXCEPT !.v = u]

\* struct DecodeResult
DecodeResult(token, new_offset) ==
    [Fail("Ok") EXCEPT !.token = token, !.new_offset = new_offset]

OkTokens(toks, new_offset) ==
    [Fail("Ok") EXCEPT !.tokens = toks, !.new_offset = new_offset]

\* The `?` of the source: the error (or the panic) of r, or k applied to r.
Then(r, k(_)) == IF r.tag = "Ok" THEN k(r) ELSE Fail(r.tag)

\* a + b
usize_add(a, b) ==
    LET lo == a.lo + b.lo
        hi == a.hi + b.hi + (lo \div Half)
    IN  IF usize_bits = 32 /\ hi >= Half
        THEN (IF overflow_checks THEN Fail("Panic")
              ELSE OkUsize(USize(hi % Half, lo % Half)))
        ELSE OkUsize(USize(hi, lo % Half))

\* a - b
usize_sub(a, b) ==
    LET lo == a.lo - b.lo
        hi == a.hi - b.hi - (IF lo < 0 THEN 1 ELSE 0)
    IN  IF hi < 0
        THEN (IF overflow_checks THEN Fail("Panic")
              ELSE OkUsize(USize(hi + Half, lo % Half)))
        ELSE OkUsize(USize(hi, lo % Half))

(***************************************************************************)
(* Decoder (decoder.rs).                                                   *)
(***************************************************************************)
\* &data[from..to]
slice(d, from, to) ==
    IF usize_gt(from, to) \/ usize_gt(to, usize(Len(d)))
    THEN Fail("Panic")
    ELSE OkBytes(SubSeq(d, from.lo + 1, to.lo))

\* &data[from..]
slice_from(d, from) == slice(d, from, usize(Len(d)))

as_usize(word) ==
    IF ~(\A i \in 1..28 : word[i] = 0)
    THEN Fail("InvalidData")
    ELSE OkUsize(USize(word[29] * 256 + word[30], word[31] * 256 + word[32]))

check_zeroes(bs) == \A i \in 1..Len(bs) : bs[i] = 0

check_bool(word) == check_zeroes(SubSeq(word, 1, 31))

peek(d, offset, len) ==
    Then(usize_add(offset, len), LAMBDA end :
        IF usize_gt(end.v, usize(Len(d)))
        THEN Fail("InvalidData")
        ELSE slice(d, offset, end.v))

peek_32_bytes(d, offset) == peek(d, offset, usize(32))

round_up_nearest_multiple(value, padding) ==
    Then(usize_add(value, padding), LAMBDA sum :
    Then(usize_sub(sum.v, usize(1)), LAMBDA dec :
        OkUsize(USize(dec.v.hi, dec.v.lo - (dec.v.lo % padding.lo)))))

\* check_fixed_bytes looking at the bytes before len where it has to look at
\* the bytes from len on
check_fixed_bytes_leading(word, len) ==
    IF word = WordDefault THEN TRUE
    ELSE CASE len = 0              -> FALSE
           [] len \in 1..31        -> check_zeroes(SubSeq(word, 1, len))
           [] len = 32             -> TRUE
           [] OTHER                -> FALSE

check_fixed_bytes(word, len) ==
    IF word = WordDefault THEN TRUE
    ELSE CASE len = 0              -> FALSE
           [] len \in 1..31        -> check_zeroes(SubSeq(word, len + 1, WordLen))
           [] len = 32             -> TRUE
           [] OTHER                -> FALSE

\* take_bytes returning, when it validates, the payload with its padding
take_bytes_with_padding(d, offset, len, validate) ==
    IF validate
    THEN Then(round_up_nearest_multiple(len, usize(32)), LAMBDA padded_len :
         Then(usize_add(offset, padded_len.v), LAMBDA padded_end :
            IF usize_gt(padded_end.v, usize(Len(d))) THEN Fail("InvalidData")
            ELSE Then(usize_add(offset, len), LAMBDA end :
                 Then(slice(d, end.v, padded_end.v), LAMBDA padding :
                    IF ~check_zeroes(padding.bytes) THEN Fail("InvalidData")
                    ELSE slice(d, offset, padded_end.v)))))
    ELSE Then(usize_add(offset, len), LAMBDA end :
            IF usize_gt(end.v, usize(Len(d))) THEN Fail("InvalidData")
            ELSE slice(d, offset, end.v))

take_bytes(d, offset, len, validate) ==
    IF validate
    THEN Then(round_up_nearest_multiple(len, usize(32)), LAMBDA padded_len :
         Then(usize_add(offset, padded_len.v), LAMBDA padded_end :
            IF usize_gt(padded_end.v, usize(Len(d))) THEN Fail("InvalidData")
            ELSE Then(usize_add(offset, len), LAMBDA end :
                 Then(slice(d, end.v, padded_end.v), LAMBDA padding :
                    IF ~check_zeroes(padding.bytes) THEN Fail("InvalidData")
                    ELSE slice(d, offset, end.v)))))
    ELSE Then(usize_add(offset, len), LAMBDA end :
            IF usize_gt(end.v, usize(Len(d))) THEN Fail("InvalidData")
            ELSE slice(d, offset, end.v))

\* The head of the Bytes, String and Array arms: the offset word, the length
\* word it points at (v) and the position after the length word (at).
read_len(d, offset) ==
    Then(peek_32_bytes(d, usize(offset)), LAMBDA w1 :
    Then(as_usize(w1.bytes), LAMBDA dynamic_offset :
    Then(peek_32_bytes(d, dynamic_offset.v), LAMBDA w2 :
    Then(as_usize(w2.bytes), LAMBDA len :
    Then(usize_add(dynamic_offset.v, usize(32)), LAMBDA start :
        [len EXCEPT !.at = start.v])))))

\* The head of the dynamic FixedArray and Tuple arms: the offset word and
\* the sub-buffer &data[offset..].
read_tail(d, offset) ==
    Then(peek_32_bytes(d, usize(offset)), LAMBDA w1 :
    Then(as_usize(w1.bytes), LAMBDA off :
        IF usize_gt(off.v, usize(Len(d))) THEN Fail("InvalidData")
        ELSE slice_from(d, off.v)))

\* One word-backed arm of decode_param, the word read and checked.
word_arm(word, ok, offset) ==
    IF ok THEN DecodeResult(Word(word), offset + 32) ELSE Fail("InvalidData")

RECURSIVE decode_param(_, _, _, _)
RECURSIVE decode_repeat(_, _, _, _, _, _, _)
RECURSIVE decode_fields(_, _, _, _, _, _)

\* `for _ in 0..len` of the Array and FixedArray arms.  decode_param is a
\* function of its arguments: once an iteration leaves new_offset where it
\* was, every later one returns the same token, so the remaining ones are
\* written out at once (Huge when the length word asks for 2^16 or more).
decode_repeat(t, tail, new_offset, left, huge, toks, validate) ==
    IF left = 0 /\ ~huge THEN OkTokens(toks, new_offset)
    ELSE Then(decode_param(t, tail, new_offset, validate), LAMBDA r :
            IF r.new_offset = new_offset
            THEN (IF huge THEN Fail("Huge")
                  ELSE OkTokens(toks \o [i \in 1..left |-> r.token], new_offset))
            ELSE decode_repeat(t, tail, r.new_offset, IF huge THEN left ELSE left - 1,
                               huge, Append(toks, r.token), validate))

\* `for param in t` of the Tuple arm.
decode_fields(ts, i, tail, new_offset, toks, validate) ==
    IF i > Len(ts) THEN OkTokens(toks, new_offset)
    ELSE Then(decode_param(ts[i], tail, new_offset, validate), LAMBDA r :
            decode_fields(ts, i + 1, tail, r.new_offset, Append(toks, r.token), validate))

\* decode_param returning, after a dynamic FixedArray or Tuple, the offset
\* reached inside the sub-buffer
decode_param_inner_offset(param, d, offset, validate) ==
    CASE param.k = "Address" ->
            Then(peek_32_bytes(d, usize(offset)), LAMBDA slice_ :
                word_arm(slice_.bytes,
                         validate => check_zeroes(SubSeq(slice_.bytes, 1, 12)), offset))
      [] param.k = "Int" ->
            Then(peek_32_bytes(d, usize(offset)), LAMBDA slice_ :
                word_arm(slice_.bytes, TRUE, offset))
      [] param.k = "Uint" ->
            Then(peek_32_bytes(d, usize(offset)), LAMBDA slice_ :
                word_arm(slice_.bytes, TRUE, offset))
      [] param.k = "Bool" ->
            Then(peek_32_bytes(d, usize(offset)), LAMBDA word :
                word_arm(word.bytes, check_bool(word.bytes), offset))
      [] param.k = "FixedBytes" ->
            Then(peek_32_bytes(d, usize(offset)), LAMBDA word :
                word_arm(word.bytes, check_fixed_bytes(word.bytes, param.n), offset))
      [] param.k = "Bytes" ->
            Then(read_len(d, offset), LAMBDA h :
            Then(take_bytes(d, h.at, h.v, validate), LAMBDA bytes :
                DecodeResult(PackedSeq(bytes.bytes), offset + 32)))
      [] param.k = "String" ->
            Then(read_len(d, offset), LAMBDA h :
            Then(take_bytes(d, h.at, h.v, validate), LAMBDA bytes :
                DecodeResult(PackedSeq(bytes.bytes), offset + 32)))
      [] param.k = "Array" ->
            Then(read_len(d, offset), LAMBDA h :
            Then(slice_from(d, h.at), LAMBDA tail :
            Then(decode_repeat(param.sub[1], tail.bytes, 0, h.v.lo, h.v.hi > 0, <<>>,
                               validate), LAMBDA r :
                DecodeResult(DynSeq(r.tokens), offset + 32))))
      [] param.k = "FixedArray" ->
            IF ParamType_is_dynamic(param)
            THEN Then(read_tail(d, offset), LAMBDA tail :
                 Then(decode_repeat(param.sub[1], tail.bytes, 0, param.n, FALSE, <<>>,
                                    validate), LAMBDA r :
                    DecodeResult(FixedSeq(r.tokens), r.new_offset)))
            ELSE Then(decode_repeat(param.sub[1], d, offset, param.n, FALSE, <<>>,
                                    validate), LAMBDA r :
                    DecodeResult(FixedSeq(r.tokens), r.new_offset))
      [] param.k = "Tuple" ->
            IF ParamType_is_dynamic(param)
            THEN Then(read_tail(d, offset), LAMBDA tail :
                 Then(decode_fields(param.sub, 1, tail.bytes, 0, <<>>, validate), LAMBDA r :
                    DecodeResult(FixedSeq(r.tokens), r.new_offset)))
            ELSE Then(decode_fields(param.sub, 1, d, offset, <<>>, validate), LAMBDA r :
                    DecodeResult(FixedSeq(r.tokens), r.new_offset))

\* decode_param with a String arm that takes a payload for text and rejects
\* every byte above 0x7f
decode_param_ascii_strings(param, d, offset, validate) ==
    CASE param.k = "Address" ->
            Then(peek_32_bytes(d, usize(offset)), LAMBDA slice_ :
                word_arm(slice_.bytes,
                         validate => check_zeroes(SubSeq(slice_.bytes, 1, 12)), offset))
      [] param.k = "Int" ->
            Then(peek_32_bytes(d, usize(offset)), LAMBDA slice_ :
                word_arm(slice_.bytes, TRUE, offset))
      [] param.k = "Uint" ->
            Then(peek_32_bytes(d, usize(offset)), LAMBDA slice_ :
                word_arm(slice_.bytes, TRUE, offset))
      [] param.k = "Bool" ->
            Then(peek_32_bytes(d, usize(offset)), LAMBDA word :
                word_arm(word.bytes, check_bool(word.bytes), offset))
      [] param.k = "FixedBytes" ->
            Then(peek_32_bytes(d, usize(offset)), LAMBDA word :
                word_arm(word.bytes, check_fixed_bytes(word.bytes, param.n), offset))
      [] param.k = "Bytes" ->
            Then(read_len(d, offset), LAMBDA h :
            Then(take_bytes(d, h.at, h.v, validate), LAMBDA bytes :
                DecodeResult(PackedSeq(bytes.bytes), offset + 32)))
      [] param.k = "String" ->
            Then(read_len(d, offset), LAMBDA h :
            Then(take_bytes(d, h.at, h.v, validate), LAMBDA bytes :
                IF \E i \in 1..Len(bytes.bytes) : bytes.bytes[i] >= 128
                THEN Fail("InvalidData")
                ELSE DecodeResult(PackedSeq(bytes.bytes), offset + 32)))
      [] param.k = "Array" ->
            Then(read_len(d, offset), LAMBDA h :
            Then(slice_from(d, h.at), LAMBDA tail :
            Then(decode_repeat(param.sub[1], tail.bytes, 0, h.v.lo, h.v.hi > 0, <<>>,
                               validate), LAMBDA r :
                DecodeResult(DynSeq(r.tokens), offset + 32))))
      [] param.k = "FixedArray" ->
            IF ParamType_is_dynamic(param)
            THEN Then(read_tail(d, offset), LAMBDA tail :
                 Then(decode_repeat(param.sub[1], tail.bytes, 0, param.n, FALSE, <<>>,
                                    validate), LAMBDA r :
                    DecodeResult(FixedSeq(r.tokens), offset + 32)))
            ELSE Then(decode_repeat(param.sub[1], d, offset, param.n, FALSE, <<>>,
                                    validate), LAMBDA r :
                    DecodeResult(FixedSeq(r.tokens), r.new_offset))
      [] param.k = "Tuple" ->
            IF ParamType_is_dynamic(param)
            THEN Then(read_tail(d, offset), LAMBDA tail :
                 Then(decode_fields(param.sub, 1, tail.bytes, 0, <<>>, validate), LAMBDA r :
                    DecodeResult(FixedSeq(r.tokens), offset + 32)))
            ELSE Then(decode_fields(param.sub, 1, d, offset, <<>>, validate), LAMBDA r :
                    DecodeResult(FixedSeq(r.tokens), r.new_offset))

decode_param(param, d, offset, validate) ==
    CASE param.k = "Address" ->
            Then(peek_32_bytes(d, usize(offset)), LAMBDA slice_ :
                word_arm(slice_.bytes,
                         validate => check_zeroes(SubSeq(slice_.bytes, 1, 12)), offset))
      [] param.k = "Int" ->
            Then(peek_32_bytes(d, usize(offset)), LAMBDA slice_ :
                word_arm(slice_.bytes, TRUE, offset))
      [] param.k = "Uint" ->
            Then(peek_32_bytes(d, usize(offset)), LAMBDA slice_ :
                word_arm(slice_.bytes, TRUE, offset))
      [] param.k = "Bool" ->
            Then(peek_32_bytes(d, usize(offset)), LAMBDA word :
                word_arm(word.bytes, check_bool(word.bytes), offset))
      [] param.k = "FixedBytes" ->
            Then(peek_32_bytes(d, usize(offset)), LAMBDA word :
                word_arm(word.bytes, check_fixed_bytes(word.bytes, param.n), offset))
      [] param.k = "Bytes" ->
            Then(read_len(d, offset), LAMBDA h :
            Then(take_bytes(d, h.at, h.v, validate), LAMBDA bytes :
                DecodeResult(PackedSeq(bytes.bytes), offset + 32)))
      [] param.k = "String" ->
            Then(read_len(d, offset), LAMBDA h :
            Then(take_bytes(d, h.at, h.v, validate), LAMBDA bytes :
                DecodeResult(PackedSeq(bytes.bytes), offset + 32)))
      [] param.k = "Array" ->
            Then(read_len(d, offset), LAMBDA h :
            Then(slice_from(d, h.at), LAMBDA tail :
            Then(decode_repeat(param.sub[1], tail.bytes, 0, h.v.lo, h.v.hi > 0, <<>>,
                               validate), LAMBDA r :
                DecodeResult(DynSeq(r.tokens), offset + 32))))
      [] param.k = "FixedArray" ->
            IF ParamType_is_dynamic(param)
            THEN Then(read_tail(d, offset), LAMBDA tail :
                 Then(decode_repeat(param.sub[1], tail.bytes, 0, param.n, FALSE, <<>>,
                                    validate), LAMBDA r :
                    DecodeResult(FixedSeq(r.tokens), offset + 32)))
            ELSE Then(decode_repeat(param.sub[1], d, offset, param.n, FALSE, <<>>,
                                    validate), LAMBDA r :
                    DecodeResult(FixedSeq(r.tokens), r.new_offset))
      [] param.k = "Tuple" ->
            IF ParamType_is_dynamic(param)
            THEN Then(read_tail(d, offset), LAMBDA tail :
                 Then(decode_fields(param.sub, 1, tail.bytes, 0, <<>>, validate), LAMBDA r :
                    DecodeResult(FixedSeq(r.tokens), offset + 32)))
            ELSE Then(decode_fields(param.sub, 1, d, offset, <<>>, validate), LAMBDA r :
                    DecodeResult(FixedSeq(r.tokens), r.new_offset))

\* The result of decode_impl: the tokens and the final offset, or the error.
ImplOk(toks, offset) == [tag |-> "Ok", tokens |-> toks, offset |-> offset]

ImplErr(tag) == [tag |-> tag, tokens |-> <<>>, offset |-> 0]

\* decode_impl accepting a buffer that is longer than what was read
decode_impl_longer_buffer(tys, d, validate) ==
    IF ~(\A i \in 1..Len(tys) : is_empty_bytes_valid_encoding(tys[i])) /\ d = <<>>
    THEN ImplErr("InvalidName")
    ELSE LET r == decode_fields(tys, 1, d, 0, <<>>, validate)
         IN  IF r.tag # "Ok" THEN ImplErr(r.tag)
             ELSE IF validate /\ r.new_offset > Len(d) THEN ImplErr("InvalidData")
             ELSE ImplOk(r.tokens, r.new_offset)

decode_impl(tys, d, validate) ==
    IF ~(\A i \in 1..Len(tys) : is_empty_bytes_valid_encoding(tys[i])) /\ d = <<>>
    THEN ImplErr("InvalidName")
    ELSE LET r == decode_fields(tys, 1, d, 0, <<>>, validate)
         IN  IF r.tag # "Ok" THEN ImplErr(r.tag)
             ELSE IF validate /\ r.new_offset # Len(d) THEN ImplErr("InvalidData")
             ELSE ImplOk(r.tokens, r.new_offset)

decode_validate(tys, d) == decode_impl(tys, d, TRUE)

\* decode handing decode_impl the flag of decode_validate
decode_with_validation(tys, d) == decode_impl(tys, d, TRUE)

decode(tys, d) == decode_impl(tys, d, FALSE)

(***************************************************************************)
(* SolType (param_type/sol_type.rs): the compile-time descriptors.  A      *)
(* descriptor is written as the ParamType of the same shape, Function      *)
(* added.  Native values: B160, [u8; N], Vec<u8> and String (its UTF-8     *)
(* bytes) are byte sequences, the primitive integers are integers, U256 is *)
(* its 32 bytes least significant first, bool is a BOOLEAN, Vec, array and *)
(* tuple are sequences.                                                    *)
(***************************************************************************)
Function == PT("Function", 0, <<>>)

RECURSIVE SolType_is_dynamic(_)
\* SolType::is_dynamic with FixedArray::is_dynamic taking an array of no
\* elements for static
SolType_is_dynamic_by_length(D) ==
    CASE D.k \in {"Bytes", "String", "Array"} -> TRUE
      [] D.k = "FixedArray" -> D.n > 0 /\ SolType_is_dynamic(D.sub[1])
      [] D.k = "Tuple" -> \E i \in 1..Len(D.sub) : SolType_is_dynamic(D.sub[i])
      [] OTHER -> FALSE

\* SolType::is_dynamic
SolType_is_dynamic(D) ==
    CASE D.k = "Address"    -> FALSE
      [] D.k = "Bytes"      -> TRUE
      [] D.k = "Int"        -> FALSE
      [] D.k = "Uint"       -> FALSE
      [] D.k = "Bool"       -> FALSE
      [] D.k = "Array"      -> TRUE
      [] D.k = "String"     -> TRUE
      [] D.k = "FixedBytes" -> FALSE
      [] D.k = "FixedArray" -> SolType_is_dynamic(D.sub[1])
      [] D.k = "Tuple"      -> \E i \in 1..Len(D.sub) : SolType_is_dynamic(D.sub[i])
      [] D.k = "Function"   -> FALSE

\* <$ity>::BITS / 8 of the impl_int_sol_type! and impl_uint_sol_type! lines
ity_bytes(bits) ==
    CASE bits = 8         -> 1
      [] bits = 16        -> 2
      [] bits \in {24, 32} -> 4
      [] OTHER            -> 8

\* to_be_bytes of an n-byte integer, two's complement
RECURSIVE to_be_bytes(_, _)
to_be_bytes(v, n) ==
    IF n = 0 THEN <<>> ELSE Append(to_be_bytes(v \div 256, n - 1), v % 256)

\* from_be_bytes, of a signed or an unsigned primitive
RECURSIVE from_be_bytes(_, _)
from_be_bytes(bs, signed) ==
    IF Len(bs) = 1
    THEN (IF signed /\ bs[1] >= 128 THEN bs[1] - 256 ELSE bs[1])
    ELSE from_be_bytes(SubSeq(bs, 1, Len(bs) - 1), signed) * 256 + bs[Len(bs)]

\* U256::to_be_bytes and U256::from_be_bytes
reverse(bs) == [i \in 1..Len(bs) |-> bs[Len(bs) + 1 - i]]

\* std::str::from_utf8(bytes).is_ok(), from byte i on
RECURSIVE from_utf8_is_ok(_, _)
from_utf8_is_ok(bs, i) ==
    LET cont(j, lo, hi) == j <= Len(bs) /\ bs[j] \in lo..hi
        b == bs[i]
    IN  IF i > Len(bs) THEN TRUE
        ELSE CASE b < 128 -> from_utf8_is_ok(bs, i + 1)
               [] b \in 194..223 ->
                    cont(i + 1, 128, 191) /\ from_utf8_is_ok(bs, i + 2)
               [] b \in 224..239 ->
                    /\ cont(i + 1, IF b = 224 THEN 160 ELSE 128, IF b = 237 THEN 159 ELSE 191)
                    /\ cont(i + 2, 128, 191)
                    /\ from_utf8_is_ok(bs, i + 3)
               [] b \in 240..244 ->
                    /\ cont(i + 1, IF b = 240 THEN 144 ELSE 128, IF b = 244 THEN 143 ELSE 191)
                    /\ cont(i + 2, 128, 191)
                    /\ cont(i + 3, 128, 191)
                    /\ from_utf8_is_ok(bs, i + 4)
               [] OTHER -> FALSE

\* SolType::type_check
RECURSIVE SolType_type_check(_, _)
SolType_type_check(D, token) ==
    CASE D.k \in {"Address", "Int", "Uint", "FixedBytes"} -> token.tag = "Word"
      [] D.k = "Bytes"    -> token.tag = "PackedSeq"
      [] D.k = "Bool"     -> token.tag = "Word" /\ check_bool(token.word)
      [] D.k = "Array"    -> token.tag = "DynSeq"
      [] D.k = "String"   -> token.tag = "PackedSeq" /\ from_utf8_is_ok(token.bytes, 1)
      [] D.k = "FixedArray" ->
            /\ token.tag = "FixedSeq"
            /\ Len(token.seq) = D.n
            /\ \A i \in 1..Len(token.seq) : SolType_type_check(D.sub[1], token.seq[i])
      [] D.k = "Tuple" ->
            /\ token.tag = "FixedSeq"
            /\ Len(token.seq) = Len(D.sub)
            /\ \A i \in 1..Len(D.sub) : SolType_type_check(D.sub[i], token.seq[i])
      [] D.k = "Function" -> token.tag = "Word" /\ check_fixed_bytes(token.word, 24)

\* word[from..].copy_from_slice(bytes), from 0-based
copy_from_slice(word, from, bytes) ==
    [i \in 1..WordLen |->
        IF i > from /\ i <= from + Len(bytes) THEN bytes[i - from] ELSE word[i]]

\* SolType::tokenize
RECURSIVE SolType_tokenize(_, _)
SolType_tokenize(D, rust) ==
    CASE D.k = "Address" -> Word(copy_from_slice(WordDefault, 12, rust))
      [] D.k = "Bytes"   -> PackedSeq(rust)
      [] D.k = "Int" ->
            Word(copy_from_slice(IF rust < 0 THEN repeat_byte(255) ELSE WordDefault,
                                 32 - ity_bytes(D.n), to_be_bytes(rust, ity_bytes(D.n))))
      [] D.k = "Uint" ->
            IF D.n <= 64
            THEN Word(copy_from_slice(WordDefault, 32 - ity_bytes(D.n),
                                      to_be_bytes(rust, ity_bytes(D.n))))
            ELSE Word(reverse(rust))
      [] D.k = "Bool"   -> Word(copy_from_slice(WordDefault, 31, <<IF rust THEN 1 ELSE 0>>))
      [] D.k = "Array"  ->
            DynSeq([i \in 1..Len(rust) |-> SolType_tokenize(D.sub[1], rust[i])])
      [] D.k = "String" -> PackedSeq(rust)
      [] D.k = "FixedBytes" -> Word(copy_from_slice(WordDefault, 0, rust))
      [] D.k = "FixedArray" ->
            FixedSeq([i \in 1..Len(rust) |-> SolType_tokenize(D.sub[1], rust[i])])
      [] D.k = "Tuple" ->
            FixedSeq([i \in 1..Len(D.sub) |-> SolType_tokenize(D.sub[i], rust[i])])
      [] D.k = "Function" ->
            Word(copy_from_slice(copy_from_slice(WordDefault, 0, rust[1]), 20, rust[2]))

\* Tokenize::to_token of a signed primitive of the given width: the value is
\* cast to the unsigned primitive of that width (the same bits), widened to
\* U256 and written big-endian.
to_token(self, bits) ==
    Word(copy_from_slice(WordDefault, 32 - bits \div 8, to_be_bytes(self, bits \div 8)))

RECURSIVE SolType_read_token(_, _, _)
RECURSIVE read_repeat(_, _, _, _, _, _)
RECURSIVE read_fields(_, _, _, _, _)

\* `for _ in 0..len` of Array<T>::read_token and `for _ in 0..N` of
\* FixedArray<T, N>::read_token; as in decode_repeat, the iterations that
\* leave new_offset where it was are written out at once.
read_repeat(T, tail, new_offset, left, huge, toks) ==
    IF left = 0 /\ ~huge THEN OkTokens(toks, new_offset)
    ELSE Then(SolType_read_token(T, tail, new_offset), LAMBDA r :
            IF r.new_offset = new_offset
            THEN (IF huge THEN Fail("Huge")
                  ELSE OkTokens(toks \o [i \in 1..left |-> r.token], new_offset))
            ELSE read_repeat(T, tail, r.new_offset, IF huge THEN left ELSE left - 1,
                             huge, Append(toks, r.token)))

\* the $ty::read_token calls of a tuple, in field order
read_fields(Ds, i, tail, new_offset, toks) ==
    IF i > Len(Ds) THEN OkTokens(toks, new_offset)
    ELSE Then(SolType_read_token(Ds[i], tail, new_offset), LAMBDA r :
            read_fields(Ds, i + 1, tail, r.new_offset, Append(toks, r.token)))

\* SolType::read_token
SolType_read_token(D, d, offset) ==
    CASE D.k \in {"Address", "Int", "Uint"} ->
            Then(peek_32_bytes(d, usize(offset)), LAMBDA slice_ :
                word_arm(slice_.bytes, SolType_type_check(D, Word(slice_.bytes)), offset))
      [] D.k = "Bool" ->
            Then(peek_32_bytes(d, usize(offset)), LAMBDA slice_ :
                word_arm(slice_.bytes, SolType_type_check(D, Word(slice_.bytes)), offset))
      [] D.k = "FixedBytes" ->
            Then(peek_32_bytes(d, usize(offset)), LAMBDA word :
                word_arm(word.bytes, check_fixed_bytes(word.bytes, D.n), offset))
      [] D.k = "Function" ->
            Then(peek_32_bytes(d, usize(offset)), LAMBDA word :
                word_arm(word.bytes, check_fixed_bytes(word.bytes, 24), offset))
      [] D.k \in {"Bytes", "String"} ->
            Then(read_len(d, offset), LAMBDA h :
            Then(take_bytes(d, h.at, h.v, TRUE), LAMBDA bytes :
                DecodeResult(PackedSeq(bytes.bytes), offset + 32)))
      [] D.k = "Array" ->
            Then(read_len(d, offset), LAMBDA h :
            Then(slice_from(d, h.at), LAMBDA tail :
            Then(read_repeat(D.sub[1], tail.bytes, 0, h.v.lo, h.v.hi > 0, <<>>), LAMBDA r :
                DecodeResult(DynSeq(r.tokens), offset + 32))))
      [] D.k = "FixedArray" ->
            IF SolType_is_dynamic(D)
            THEN Then(read_tail(d, offset), LAMBDA tail :
                 Then(read_repeat(D.sub[1], tail.bytes, 0, D.n, FALSE, <<>>), LAMBDA r :
                    DecodeResult(FixedSeq(r.tokens), offset + 32)))
            ELSE Then(read_repeat(D.sub[1], d, offset, D.n, FALSE, <<>>), LAMBDA r :
                    DecodeResult(FixedSeq(r.tokens), r.new_offset))
      [] D.k = "Tuple" ->
            IF SolType_is_dynamic(D)
            THEN Then(read_tail(d, offset), LAMBDA tail :
                 Then(read_fields(D.sub, 1, tail.bytes, 0, <<>>), LAMBDA r :
                    DecodeResult(FixedSeq(r.tokens), offset + 32)))
            ELSE Then(read_fields(D.sub, 1, d, offset, <<>>), LAMBDA r :
                    DecodeResult(FixedSeq(r.tokens), r.new_offset))

\* crate::Result<RustType>
RustOk(rust) == [tag |-> "Ok", value |-> rust]

RustErr == [tag |-> "InvalidData", value |-> <<>>]

\* SolType::detokenize
RECURSIVE SolType_detokenize(_, _)
SolType_detokenize(D, token) ==
    LET \* .map(detokenize).collect::<Result<Vec<_>>>()
        collect(elems) ==
            IF \E i \in 1..Len(elems) : elems[i].tag # "Ok" THEN RustErr
            ELSE RustOk([i \in 1..Len(elems) |-> elems[i].value])
        each(T) == [i \in 1..Len(token.seq) |-> SolType_detokenize(T, token.seq[i])]
    IN  CASE D.k = "Address" ->
                IF token.tag = "Word" THEN RustOk(SubSeq(token.word, 13, 32)) ELSE RustErr
          [] D.k = "Bytes" ->
                IF token.tag = "PackedSeq" THEN RustOk(token.bytes) ELSE RustErr
          [] D.k = "Int" ->
                IF token.tag = "Word"
                THEN RustOk(from_be_bytes(SubSeq(token.word, 33 - ity_bytes(D.n), 32), TRUE))
                ELSE RustErr
          [] D.k = "Uint" ->
                IF token.tag # "Word" THEN RustErr
                ELSE IF D.n <= 64
                THEN RustOk(from_be_bytes(SubSeq(token.word, 33 - ity_bytes(D.n), 32), FALSE))
                ELSE RustOk(reverse(token.word))
          [] D.k = "Bool" ->
                IF token.tag = "Word" THEN RustOk(token.word[32] < 2) ELSE RustErr
          [] D.k = "Array" ->
                IF token.tag = "DynSeq" THEN collect(each(D.sub[1])) ELSE RustErr
          [] D.k = "String" ->
                IF token.tag = "PackedSeq" /\ from_utf8_is_ok(token.bytes, 1)
                THEN RustOk(token.bytes) ELSE RustErr
          [] D.k = "FixedBytes" ->
                IF token.tag = "Word" THEN RustOk(SubSeq(token.word, 1, D.n)) ELSE RustErr
          [] D.k = "FixedArray" ->
                IF token.tag # "FixedSeq" THEN RustErr
                ELSE IF collect(each(D.sub[1])).tag # "Ok" \/ Len(token.seq) # D.n
                THEN RustErr
                ELSE collect(each(D.sub[1]))
          [] D.k = "Tuple" ->
                IF ~SolType_type_check(D, token) THEN RustErr
                ELSE collect([i \in 1..Len(D.sub) |->
                                SolType_detokenize(D.sub[i], token.seq[i])])
          [] D.k = "Function" ->
                IF ~SolType_type_check(D, token) THEN RustErr
                ELSE RustOk(<<SubSeq(token.word, 1, 20), SubSeq(token.word, 21, 24)>>)

(***************************************************************************)
(* Bounds of the model.                                                    *)
(***************************************************************************)
\* longest DynSeq handed to the encoder
MaxArrayLen == 2

\* longest FixedArray type
MaxFixedLen == 2

\* buffers of at most this many words are tampered with
MaxTamperWords == 4

\* most fields of a struct deriving SolAbiType
MaxFields == 3

\* a call is polled at most this often
MaxPolls == 5

(***************************************************************************)
(* The inputs: type lists, and for each the token lists that type-check    *)
(* against it with every Word a valid value of its type.                   *)
(***************************************************************************)
AddressWord(b) == [i \in 1..WordLen |-> IF i <= 12 THEN 0 ELSE b]

LeftWord(n, b) == [i \in 1..WordLen |-> IF i <= n THEN b ELSE 0]

\* a static and a dynamic element type
ElemTypes == {UintN(256), Bytes}

LeafTypes == {Address, Bool, IntN(8), UintN(256), FixedBytes(2), FixedBytes(32),
              Bytes, String}

Seq1Types ==
    {Array(e) : e \in ElemTypes}
    \cup {FixedArray(e, n) : e \in ElemTypes, n \in 0..MaxFixedLen}
    \cup {Tuple(<<>>)}
    \cup {Tuple(<<e, f>>) : e \in ElemTypes, f \in ElemTypes}

Seq2Types ==
    {Array(s) : s \in Seq1Types}
    \cup {FixedArray(s, 1) : s \in Seq1Types}
    \cup {Tuple(<<UintN(256), s>>) : s \in Seq1Types}
    \cup {Tuple(<<s, Bytes>>) : s \in Seq1Types}

TypeLists ==
    {<<t>> : t \in LeafTypes \cup Seq1Types \cup Seq2Types}
    \cup {<<a, b>> : a \in ElemTypes \cup Seq1Types, b \in ElemTypes}
    \cup {<<a, b>> : a \in ElemTypes, b \in Seq1Types}

\* The words of a leaf type; one value only below the first level of nesting.
WordsOf(param, depth) ==
    CASE param.k = "Address" -> {AddressWord(17)}
      [] param.k = "Bool"    -> {pad_u32(0), pad_u32(1)}
      [] param.k = "Int"     -> {pad_u32(1), repeat_byte(255)}
      [] param.k = "Uint"    -> IF depth <= 1 THEN {pad_u32(1), repeat_byte(255)}
                                ELSE {pad_u32(1)}
      [] param.k = "FixedBytes" -> {LeftWord(param.n, 171)}

\* The payloads of Bytes and String; the long ones at the top level only.
PayloadsOf(param, depth) ==
    CASE depth = 0 -> {<<>>, <<228, 184, 141, 229>>, [i \in 1..32 |-> i], [i \in 1..33 |-> i]}
      [] depth = 1 -> {<<>>, <<228>>}
      [] OTHER     -> {<<228>>}

\* All sequences of length n over the set S.
RECURSIVE SeqsOfLen(_, _)
SeqsOfLen(S, n) ==
    IF n = 0 THEN {<<>>}
    ELSE {Append(q, x) : q \in SeqsOfLen(S, n - 1), x \in S}

RECURSIVE TokensOf(_, _)
RECURSIVE TokenSeqsOf(_, _, _)
TokensOf(param, depth) ==
    CASE param.k \in {"Bytes", "String"} ->
            {PackedSeq(b) : b \in PayloadsOf(param, depth)}
      [] param.k = "Array" ->
            UNION {{DynSeq(q) : q \in SeqsOfLen(TokensOf(param.sub[1], depth + 1), n)} :
                   n \in 0..MaxArrayLen}
      [] param.k = "FixedArray" ->
            {FixedSeq(q) : q \in SeqsOfLen(TokensOf(param.sub[1], depth + 1), param.n)}
      [] param.k = "Tuple" ->
            {FixedSeq(q) : q \in TokenSeqsOf(param.sub, Len(param.sub), depth + 1)}
      [] OTHER -> {Word(w) : w \in WordsOf(param, depth)}

\* The token sequences matching the first n types of tys.
TokenSeqsOf(tys, n, depth) ==
    IF n = 0 THEN {<<>>}
    ELSE {Append(q, x) : q \in TokenSeqsOf(tys, n - 1, depth), x \in TokensOf(tys[n], depth)}

\* The words written over a word of the encoder's output.
TamperWords ==
    {pad_u32(0), pad_u32(1), pad_u32(2), pad_u32(32), pad_u32(64),
     [i \in 1..WordLen |-> IF i >= 29 THEN 255 ELSE 0],
     [i \in 1..WordLen |-> IF i >= 29 THEN (IF i = 32 THEN 224 ELSE 255) ELSE 0],
     [i \in 1..WordLen |-> IF i = 1 THEN 1 ELSE 0],
     repeat_byte(255)}

\* The bytes appended to the encoder's output.
TrailingBytes == {<<0>>, <<7>>, Zeros(WordLen), repeat_byte(255)}

\* usize width and overflow checks of the build
Builds == {<<64, FALSE>>, <<64, TRUE>>, <<32, FALSE>>, <<32, TRUE>>}

NoResult == [tag |-> "None", tokens |-> <<>>, offset |-> 0]

\* no DecodeResult yet
NoRead == [tag |-> "None", token |-> NoToken, new_offset |-> 0]

(***************************************************************************)
(* The codec as a state machine: a token list is encoded, the bytes may be *)
(* tampered with once, and are decoded in both modes.                      *)
(***************************************************************************)
\* no struct is derived
DeriveIdle ==
    /\ dfields = <<>>
    /\ dnamed = FALSE
    /\ dtoken = NoToken
    /\ dpc = "idle"

\* the params of a call: a list of strings, or a map whose keys are not
\* strings
ParamsSeq(items) == [kind |-> "Seq", items |-> items]

ParamsMap == [kind |-> "Map", items |-> <<>>]

\* what a poll returns
PollPending == [poll |-> "Pending", val |-> "None"]

PollReady(val) == [poll |-> "Ready", val |-> val]

PollPanic == [poll |-> "Panic", val |-> "None"]

NotPolled == [poll |-> "None", val |-> "None"]

\* no call is made
CallIdle ==
    /\ cstate = "Complete"
    /\ cmethod = ""
    /\ cparams = ParamsSeq(<<>>)
    /\ cid = 0
    /\ crequests = <<>>
    /\ cwakes = 0
    /\ cret = NotPolled
    /\ cpolls = 0

SolIdle ==
    /\ sol = Bool
    /\ native = 0
    /\ stoken = NoToken
    /\ sback = 0
    /\ spc = "idle"

Init ==
    /\ \E b \in Builds : usize_bits = b[1] /\ overflow_checks = b[2]
    /\ types \in TypeLists
    /\ tokens \in TokenSeqsOf(types, Len(types), 0)
    /\ data = <<>>
    /\ tamper = "none"
    /\ pc = "start"
    /\ res = NoResult
    /\ vres = NoResult
    /\ rres = NoRead
    /\ SolIdle
    /\ DeriveIdle
    /\ CallIdle

Encode ==
    /\ pc = "start"
    /\ encode(tokens).tag = "Ok"
    /\ data' = encode(tokens).bytes
    /\ pc' = "encoded"
    /\ UNCHANGED <<usize_bits, overflow_checks, types, tokens, tamper, res, vres, rres>>
    /\ UNCHANGED sol_vars
    /\ UNCHANGED derive_vars
    /\ UNCHANGED call_vars

\* trailing bytes are appended to the buffer
AppendBytes ==
    /\ pc = "encoded" /\ tamper = "none"
    /\ Len(data) <= MaxTamperWords * WordLen
    /\ \E x \in TrailingBytes : data' = data \o x
    /\ tamper' = "append"
    /\ UNCHANGED <<usize_bits, overflow_checks, types, tokens, pc, res, vres, rres>>
    /\ UNCHANGED sol_vars
    /\ UNCHANGED derive_vars
    /\ UNCHANGED call_vars

\* one word of the buffer is overwritten
SetWord ==
    /\ pc = "encoded" /\ tamper = "none"
    /\ Len(data) <= MaxTamperWords * WordLen
    /\ \E i \in 0..((Len(data) \div WordLen) - 1), w \in TamperWords :
          /\ SubSeq(data, WordLen * i + 1, WordLen * (i + 1)) # w
          /\ data' = SubSeq(data, 1, WordLen * i) \o w
                     \o SubSeq(data, WordLen * (i + 1) + 1, Len(data))
    /\ tamper' = "word"
    /\ UNCHANGED <<usize_bits, overflow_checks, types, tokens, pc, res, vres, rres>>
    /\ UNCHANGED sol_vars
    /\ UNCHANGED derive_vars
    /\ UNCHANGED call_vars

\* the end of the buffer is cut off
Truncate ==
    /\ pc = "encoded" /\ tamper = "none"
    /\ Len(data) <= MaxTamperWords * WordLen
    /\ \E n \in {1, 31, 32} :
          /\ n <= Len(data)
          /\ data' = SubSeq(data, 1, Len(data) - n)
    /\ tamper' = "truncate"
    /\ UNCHANGED <<usize_bits, overflow_checks, types, tokens, pc, res, vres, rres>>
    /\ UNCHANGED sol_vars
    /\ UNCHANGED derive_vars
    /\ UNCHANGED call_vars

\* the decoder is handed an empty byte slice instead
Empty ==
    /\ pc = "encoded" /\ tamper = "none"
    /\ data # <<>>
    /\ data' = <<>>
    /\ tamper' = "empty"
    /\ UNCHANGED <<usize_bits, overflow_checks, types, tokens, pc, res, vres, rres>>
    /\ UNCHANGED sol_vars
    /\ UNCHANGED derive_vars
    /\ UNCHANGED call_vars

Decode ==
    /\ pc = "encoded"
    /\ res' = decode(types, data)
    /\ pc' = "decoded"
    /\ UNCHANGED <<usize_bits, overflow_checks, types, tokens, data, tamper, vres, rres>>
    /\ UNCHANGED sol_vars
    /\ UNCHANGED derive_vars
    /\ UNCHANGED call_vars

DecodeValidate ==
    /\ pc = "decoded"
    /\ vres' = decode_validate(types, data)
    /\ pc' = "validated"
    /\ UNCHANGED <<usize_bits, overflow_checks, types, tokens, data, tamper, res, rres>>
    /\ UNCHANGED sol_vars
    /\ UNCHANGED derive_vars
    /\ UNCHANGED call_vars

\* The ParamType is a shape that has a SolType: Int up to 64 bits, tuples of
\* 1 to 21 fields.
RECURSIVE HasSolType(_)
HasSolType(param) ==
    /\ param.k = "Int" => param.n <= 64
    /\ param.k = "Tuple" => Len(param.sub) \in 1..21
    /\ \A i \in 1..Len(param.sub) : HasSolType(param.sub[i])

\* SolType::read_token(data, 0) on the buffer, for the descriptor of the one
\* requested type
ReadToken ==
    /\ pc = "validated"
    /\ Len(types) = 1 /\ HasSolType(types[1])
    /\ rres' = LET r == SolType_read_token(types[1], data, 0)
               IN  [tag |-> r.tag, token |-> r.token, new_offset |-> r.new_offset]
    /\ pc' = "read"
    /\ UNCHANGED <<usize_bits, overflow_checks, types, tokens, data, tamper, res, vres>>
    /\ UNCHANGED sol_vars
    /\ UNCHANGED derive_vars
    /\ UNCHANGED call_vars

Next ==
    \/ Encode
    \/ AppendBytes
    \/ SetWord
    \/ Truncate
    \/ Empty
    \/ Decode
    \/ DecodeValidate
    \/ ReadToken

Spec == Init /\ [][Next]_vars

(***************************************************************************)
(* The descriptors as a state machine: a native value is tokenized and the *)
(* token is detokenized.                                                   *)
(***************************************************************************)
SolLeafTypes ==
    {Address, Bool, IntN(8), IntN(16), IntN(24), IntN(32), IntN(64),
     UintN(8), UintN(16), UintN(32), UintN(64), UintN(72), UintN(256),
     FixedBytes(1), FixedBytes(20), FixedBytes(32), Bytes, String, Function}

\* a static and two dynamic element types, and the one with a bare bool
SolElemTypes == {UintN(8), Bool, Bytes, String}

SolSeq1Types ==
    {Array(e) : e \in SolElemTypes}
    \cup {FixedArray(e, n) : e \in SolElemTypes, n \in 0..MaxFixedLen}
    \cup {Tuple(<<e>>) : e \in SolElemTypes}
    \cup {Tuple(<<e, f>>) : e \in {UintN(8), Bytes}, f \in {IntN(16), String}}

SolSeq2Types ==
    {Array(s) : s \in SolSeq1Types}
    \cup {FixedArray(s, 1) : s \in SolSeq1Types}
    \cup {Tuple(<<Address, s>>) : s \in SolSeq1Types}

SolTypes == SolLeafTypes \cup SolSeq1Types \cup SolSeq2Types

\* The native values of a descriptor; fewer below the first level of nesting.
RECURSIVE RustValues(_, _)
RECURSIVE RustTuples(_, _, _)
RustValues(D, depth) ==
    CASE D.k = "Address" -> {[i \in 1..20 |-> 16 + i]}
      [] D.k = "Bool"    -> {FALSE, TRUE}
      [] D.k = "Int" ->
            IF depth > 0 THEN {-1, 7}
            ELSE CASE D.n = 8  -> {-128, -1, 0, 127}
                   [] D.n = 16 -> {-32768, -129, 255, 32767}
                   [] OTHER    -> {-2147483647, -1, 65536, 2147483647}
      [] D.k = "Uint" ->
            IF D.n > 64 THEN {Zeros(WordLen), [i \in 1..WordLen |-> i]}
            ELSE IF depth > 0 THEN {200}
            ELSE CASE D.n = 8  -> {0, 255}
                   [] D.n = 16 -> {256, 65535}
                   [] OTHER    -> {65536, 2147483647}
      [] D.k = "FixedBytes" -> {Zeros(D.n), [i \in 1..D.n |-> 160 + i]}
      [] D.k = "Bytes"  -> IF depth > 0 THEN {<<255>>}
                           ELSE {<<>>, <<0, 255, 128>>, [i \in 1..33 |-> i]}
      [] D.k = "String" -> IF depth > 0 THEN {<<97>>}
                           ELSE {<<>>, <<97, 98>>, <<228, 184, 141>>}
      [] D.k = "Array" ->
            UNION {SeqsOfLen(RustValues(D.sub[1], depth + 1), n) : n \in 0..MaxArrayLen}
      [] D.k = "FixedArray" -> SeqsOfLen(RustValues(D.sub[1], depth + 1), D.n)
      [] D.k = "Tuple"  -> RustTuples(D.sub, Len(D.sub), depth + 1)
      [] D.k = "Function" -> {<<[i \in 1..20 |-> i], <<222, 173, 190, 239>>>>}

\* The tuples of native values of the first n descriptors of Ds.
RustTuples(Ds, n, depth) ==
    IF n = 0 THEN {<<>>}
    ELSE {Append(q, x) : q \in RustTuples(Ds, n - 1, depth), x \in RustValues(Ds[n], depth)}

CodecIdle ==
    /\ usize_bits = 64
    /\ overflow_checks = FALSE
    /\ types = <<>>
    /\ tokens = <<>>
    /\ data = <<>>
    /\ tamper = "none"
    /\ pc = "idle"
    /\ res = NoResult
    /\ vres = NoResult
    /\ rres = NoRead

InitSol ==
    /\ sol \in SolTypes
    /\ native \in RustValues(sol, 0)
    /\ stoken = NoToken
    /\ sback = RustErr
    /\ spc = "start"
    /\ CodecIdle
    /\ DeriveIdle
    /\ CallIdle

Tokenize ==
    /\ spc = "start"
    /\ stoken' = SolType_tokenize(sol, native)
    /\ spc' = "tokenized"
    /\ UNCHANGED <<sol, native, sback>>
    /\ UNCHANGED codec_vars
    /\ UNCHANGED derive_vars
    /\ UNCHANGED call_vars

\* Tokens a caller can hand to detokenize and type_check in place of the one
\* tokenize made: other variants, other arities, other elements, words that
\* are no boolean and a payload that is no UTF-8.
ForeignTokens ==
    {Word(pad_u32(2)), Word([i \in 1..WordLen |-> IF i \in {1, 32} THEN 2 ELSE 0]),
     PackedSeq(<<97>>), PackedSeq(<<228, 184, 141, 229>>),
     DynSeq(<<>>), DynSeq(<<Word(pad_u32(2))>>), DynSeq(<<PackedSeq(<<255>>)>>),
     FixedSeq(<<>>), FixedSeq(<<Word(pad_u32(2))>>), FixedSeq(<<PackedSeq(<<255>>)>>),
     FixedSeq(<<Word(pad_u32(1)), Word(pad_u32(1)), Word(pad_u32(1))>>),
     FixedSeq(<<Word(AddressWord(17)), DynSeq(<<PackedSeq(<<255>>)>>)>>),
     DynSeq(<<DynSeq(<<PackedSeq(<<255>>)>>)>>)}

\* the caller passes another token than the one tokenize returned
Substitute ==
    /\ spc = "tokenized"
    /\ \E t \in ForeignTokens :
          /\ t # stoken
          /\ stoken' = t
    /\ spc' = "substituted"
    /\ UNCHANGED <<sol, native, sback>>
    /\ UNCHANGED codec_vars
    /\ UNCHANGED derive_vars
    /\ UNCHANGED call_vars

\* Tokenize::to_token on the native integer of an Int descriptor
ToToken ==
    /\ spc = "start"
    /\ sol.k = "Int"
    /\ stoken' = to_token(native, 8 * ity_bytes(sol.n))
    /\ spc' = "to_token"
    /\ UNCHANGED <<sol, native, sback>>
    /\ UNCHANGED codec_vars
    /\ UNCHANGED derive_vars
    /\ UNCHANGED call_vars

Detokenize ==
    /\ spc \in {"tokenized", "substituted"}
    /\ sback' = SolType_detokenize(sol, stoken)
    /\ spc' = "detokenized"
    /\ UNCHANGED <<sol, native, stoken>>
    /\ UNCHANGED codec_vars
    /\ UNCHANGED derive_vars
    /\ UNCHANGED call_vars

NextSol ==
    \/ Tokenize
    \/ ToToken
    \/ Substitute
    \/ Detokenize

SpecSol == InitSol /\ [][NextSol]_vars

(***************************************************************************)
(* #[derive(SolAbiType)] (abi/derive/src/lib.rs).  A struct is the list of *)
(* its fields in declaration order, each a u8 value that is marked         *)
(* #[abi_skip] or not.  The code the macro generates is the list of the    *)
(* fields it reads (position 1 is the first field, `self.0` of a tuple     *)
(* struct), one `tokens.push` for each.                                    *)
(***************************************************************************)
\* .filter(|f| !f.attrs.iter().any(|attr| attr.path.is_ident("abi_skip")))
not_skipped(fields) ==
    SelectSeq([i \in 1..Len(fields) |-> i], LAMBDA i : ~fields[i].skip)

\* tokenize_named_fields: self.#field_name of every field that is kept
tokenize_named_fields(fields) == not_skipped(fields)

\* tokenize_unnamed_fields: the kept fields are enumerated, and the number
\* of each in that enumeration is the index read from self
tokenize_unnamed_fields(fields) == [field_num \in 1..Len(not_skipped(fields)) |-> field_num]

\* tokenize_fields
tokenize_fields(fields, named) ==
    IF named THEN tokenize_named_fields(fields) ELSE tokenize_unnamed_fields(fields)

\* the to_token that impl_tokenize generates, run on the struct
impl_tokenize(fields, named) ==
    LET pushes == tokenize_fields(fields, named)
    IN  FixedSeq([j \in 1..Len(pushes) |-> to_token(fields[pushes[j]].value, 8)])

\* the u8 values of the fields
FieldValues == {2, 5, 7}

Fields == [value : FieldValues, skip : BOOLEAN]

InitDerive ==
    /\ dfields \in UNION {SeqsOfLen(Fields, n) : n \in 0..MaxFields}
    /\ dnamed \in BOOLEAN
    /\ dtoken = NoToken
    /\ dpc = "start"
    /\ CodecIdle
    /\ SolIdle
    /\ CallIdle

\* to_token of a struct with named fields deriving SolAbiType
ToTokenNamed ==
    /\ dpc = "start" /\ dnamed
    /\ dtoken' = impl_tokenize(dfields, TRUE)
    /\ dpc' = "done"
    /\ UNCHANGED <<dfields, dnamed>>
    /\ UNCHANGED codec_vars
    /\ UNCHANGED sol_vars
    /\ UNCHANGED call_vars

\* to_token of a tuple struct deriving SolAbiType
ToTokenUnnamed ==
    /\ dpc = "start" /\ ~dnamed
    /\ dtoken' = impl_tokenize(dfields, FALSE)
    /\ dpc' = "done"
    /\ UNCHANGED <<dfields, dnamed>>
    /\ UNCHANGED codec_vars
    /\ UNCHANGED sol_vars
    /\ UNCHANGED call_vars

NextDerive ==
    \/ ToTokenNamed
    \/ ToTokenUnnamed

SpecDerive == InitDerive /\ [][NextDerive]_vars

(***************************************************************************)
(* CallState (ethers-transports/src/call.rs): the future of one JSON-RPC   *)
(* call.  The connection is what it was asked so far (crequests), the      *)
(* task context how often its waker was woken (cwakes).  The future that   *)
(* json_rpc_request returns answers each poll as the transport decides.    *)
(***************************************************************************)
\* serde_json::to_string of the params, as the pieces of the text
RECURSIVE json_items(_, _)
json_items(items, i) ==
    IF i > Len(items) THEN <<>>
    ELSE (IF i > 1 THEN <<",">> ELSE <<>>) \o <<"\"", items[i], "\"">> \o json_items(items, i + 1)

\* utils::to_json_raw_value: a map whose keys are not strings has no JSON
to_json_raw_value(s) ==
    IF s.kind = "Map" THEN [tag |-> "Err", raw |-> <<>>]
    ELSE [tag |-> "Ok", raw |-> <<"[">> \o json_items(s.items, 1) \o <<"]">>]

\* Request::owned(id, method, Some(params))
Request_owned(id, method, params) == [id |-> id, method |-> method, params |-> params]

\* What a poll did: the state it left in self, the requests it handed to
\* the connection, how often it woke the waker, what it returned.
Polled(state, requests, wakes, ret) ==
    [state |-> state, requests |-> requests, wakes |-> wakes, ret |-> ret]

\* CallState::poll_prepared; self holds Running from the replace on
poll_prepared(this, method, params, id) ==
    IF this = "Prepared"
    THEN LET raw == to_json_raw_value(params)
         IN  IF raw.tag = "Err"
             THEN Polled("Complete", <<>>, 0, PollReady("SerdeError"))
             ELSE Polled("AwaitingResponse", <<Request_owned(id, method, raw.raw)>>, 1,
                         PollPending)
    ELSE Polled("Running", <<>>, 0, PollPanic)

\* CallState::poll_awaiting that does not put the future back when it is
\* not ready
poll_awaiting_without_put_back(this, fut_poll) ==
    IF this = "AwaitingResponse"
    THEN IF fut_poll.poll = "Ready"
         THEN Polled("Complete", <<>>, 0, PollReady(fut_poll.val))
         ELSE Polled("Running", <<>>, 0, PollPending)
    ELSE Polled("Running", <<>>, 0, PollPanic)

\* CallState::poll_awaiting; fut_poll is what the inner future answers
poll_awaiting(this, fut_poll) ==
    IF this = "AwaitingResponse"
    THEN IF fut_poll.poll = "Ready"
         THEN Polled("Complete", <<>>, 0, PollReady(fut_poll.val))
         ELSE Polled("AwaitingResponse", <<>>, 0, PollPending)
    ELSE Polled("Running", <<>>, 0, PollPanic)

\* <CallState as Future>::poll
poll(state, method, params, id, fut_poll) ==
    CASE state = "Prepared"         -> poll_prepared(state, method, params, id)
      [] state = "AwaitingResponse" -> poll_awaiting(state, fut_poll)
      [] OTHER                      -> Polled(state, <<>>, 0, PollPanic)

\* the methods, params and ids of the calls
CallMethods == {"eth_blockNumber", "eth_getBalance"}

CallParams == {ParamsSeq(<<>>), ParamsSeq(<<"0x1", "latest">>), ParamsMap}

CallIds == {1, 2}

\* what the future of the connection answers to a poll
FutPolls == {PollPending, PollReady("Ok"), PollReady("TransportError")}

\* CallState::new
InitCall ==
    /\ cstate = "Prepared"
    /\ cmethod \in CallMethods
    /\ cparams \in CallParams
    /\ cid \in CallIds
    /\ crequests = <<>>
    /\ cwakes = 0
    /\ cret = NotPolled
    /\ cpolls = 0
    /\ CodecIdle
    /\ SolIdle
    /\ DeriveIdle

\* the executor, or whoever holds the call, polls it
Poll ==
    /\ cpolls < MaxPolls
    /\ \E fut_poll \in FutPolls :
          LET p == poll(cstate, cmethod, cparams, cid, fut_poll)
          IN  /\ cstate' = p.state
              /\ crequests' = crequests \o p.requests
              /\ cwakes' = cwakes + p.wakes
              /\ cret' = p.ret
    /\ cpolls' = cpolls + 1
    /\ UNCHANGED <<cmethod, cparams, cid>>
    /\ UNCHANGED codec_vars
    /\ UNCHANGED sol_vars
    /\ UNCHANGED derive_vars

NextCall == Poll

SpecCall == InitCall /\ [][NextCall]_vars

(***************************************************************************)
(* Properties of the codec.                                                *)
(***************************************************************************)
Decoded == pc \in {"decoded", "validated"}

Validated == pc = "validated"

\* the results a caller can handle: success or a typed error
TypedResults == {"Ok", "InvalidData", "InvalidName"}

\* C1: encode/decode round-trip: for every type list and every token list
\* that type-checks against it, decode(types, encode(ts)) returns Ok(ts).
C1_RoundTrip ==
    (Decoded /\ tamper = "none" /\ types_check(tokens, types))
        => (res.tag = "Ok" /\ res.tokens = tokens)

\* C3: canonical strictness: decode_validate(types, encode(ts)) succeeds and
\* returns the token list decode(types, encode(ts)) returns, dynamic values
\* included.
C3_CanonicalStrictness ==
    (Validated /\ tamper = "none" /\ types_check(tokens, types))
        => (vres.tag = "Ok" /\ res.tag = "Ok" /\ vres.tokens = res.tokens)

WordAt(pos) == SubSeq(data, pos + 1, pos + WordLen)

\* The top 28 bytes of an offset or length word are not all zero.
TopBytesSet(w) == \E i \in 1..28 : w[i] # 0

\* The value of an offset or length word is below 2^16.
Small(w) == ~TopBytesSet(w) /\ w[29] = 0 /\ w[30] = 0

SmallValue(w) == w[31] * 256 + w[32]

\* The value of the word w plus extra exceeds n (extra, n below 2^16).
Exceeds(w, extra, n) ==
    ~TopBytesSet(w) /\ (~Small(w) \/ SmallValue(w) + extra > n)

\* The bytes a value of the static type t takes in the head.
RECURSIVE StaticSize(_)
StaticSize(t) ==
    LET RECURSIVE sum(_)
        sum(i) == IF i = 0 THEN 0 ELSE sum(i - 1) + StaticSize(t.sub[i])
    IN  CASE t.k = "FixedArray" -> t.n * StaticSize(t.sub[1])
          [] t.k = "Tuple"      -> sum(Len(t.sub))
          [] OTHER              -> WordLen

\* The one requested type is read through an offset word and a length word;
\* the elements of an array take at least a word each.
OneLengthPrefixed ==
    /\ Len(types) = 1
    /\ types[1].k \in {"Bytes", "String", "Array"}
    /\ types[1].k = "Array" =>
          (ParamType_is_dynamic(types[1].sub[1]) \/ StaticSize(types[1].sub[1]) > 0)
    /\ Len(data) >= WordLen

\* The bytes the length word w announces: len bytes for a byte string,
\* 32 bytes per element for an array.
Announced(w) ==
    IF types[1].k = "Array" THEN 32 * SmallValue(w) ELSE SmallValue(w)

\* An offset or length word of the buffer has to be rejected.
BadOffsetOrLength ==
    LET w1 == WordAt(0)
    IN  \/ TopBytesSet(w1)
        \/ Exceeds(w1, 32, Len(data))
        \/ /\ Small(w1)
           /\ SmallValue(w1) + 32 <= Len(data)
           /\ LET w2 == WordAt(SmallValue(w1))
              IN  \/ TopBytesSet(w2)
                  \/ ~TopBytesSet(w2) /\ ~Small(w2)
                  \/ /\ Small(w2)
                     /\ SmallValue(w1) + 32 + Announced(w2) > Len(data)

\* C5: an offset or length word whose top 28 bytes are not all zero, or whose
\* value plus the payload it announces (32 bytes for a length word, len
\* bytes for a byte string, 32 bytes per element for an array) exceeds the
\* buffer length, makes decode and decode_validate return InvalidData.
C5_OffsetLengthRejected ==
    (Validated /\ OneLengthPrefixed /\ BadOffsetOrLength)
        => (res.tag = "InvalidData" /\ vres.tag = "InvalidData")

\* C6: decode and decode_validate end with Ok or a typed error on every
\* buffer; none panics or slices the buffer out of range.
C6_MemorySafety ==
    /\ Decoded => res.tag \in TypedResults
    /\ Validated => vres.tag \in TypedResults

\* offset + 32 as the integers have it, in the two halves of a usize
ExactPlus32(v) == USize(v.hi + ((v.lo + 32) \div Half), (v.lo + 32) % Half)

\* C7: the sums of the bounds checks are evaluated without wraparound: for
\* the offset value the decoder reads from the head word, offset + 32 is the
\* sum the integers have, and an offset with offset + 32 beyond the buffer
\* is rejected with InvalidData in both modes.
C7_NoWraparound ==
    (Validated /\ OneLengthPrefixed /\ ~TopBytesSet(WordAt(0)))
        => LET offset == as_usize(WordAt(0)).v
               sum    == usize_add(offset, usize(32))
           IN  /\ sum.tag = "Ok" /\ sum.v = ExactPlus32(offset)
               /\ usize_gt(ExactPlus32(offset), usize(Len(data)))
                    => (res.tag = "InvalidData" /\ vres.tag = "InvalidData")

\* The kinds the empty-input rule names as not decodable from zero bytes.
NeedsBytes(t) ==
    \/ t.k \in {"Address", "Bytes", "Int", "Uint", "Bool", "String", "Array", "FixedBytes"}
    \/ t.k = "FixedArray" /\ t.n >= 1

\* C8: on the empty buffer decode and decode_validate return InvalidName
\* when some requested type is not decodable from zero bytes, and succeed
\* when every requested type is a FixedArray of length 0.
C8_EmptyInput ==
    (Validated /\ data = <<>>)
        => /\ (\E i \in 1..Len(types) : NeedsBytes(types[i]))
                => (res.tag = "InvalidName" /\ vres.tag = "InvalidName")
           /\ (\A i \in 1..Len(types) : types[i].k = "FixedArray" /\ types[i].n = 0)
                => (res.tag = "Ok" /\ vres.tag = "Ok")

\* The bytes the token takes in the head of the sequence it is an element of,
\* and in its tail.
RECURSIVE HeadSize(_)
HeadSize(token) ==
    LET RECURSIVE sum(_)
        sum(i) == IF i = 0 THEN 0 ELSE sum(i - 1) + HeadSize(token.seq[i])
    IN  IF Token_is_dynamic(token) \/ token.tag = "Word" THEN WordLen
        ELSE sum(Len(token.seq))

RECURSIVE TailSize(_)
TailSize(token) ==
    LET RECURSIVE sum(_)
        sum(i) == IF i = 0 THEN 0
                  ELSE sum(i - 1) + HeadSize(token.seq[i]) + TailSize(token.seq[i])
    IN  CASE ~Token_is_dynamic(token)  -> 0
          [] token.tag = "PackedSeq"   -> WordLen + WordLen * ((Len(token.bytes) + 31) \div 32)
          [] token.tag = "DynSeq"      -> WordLen + sum(Len(token.seq))
          [] token.tag = "FixedSeq"    -> sum(Len(token.seq))

RECURSIVE HeadsBefore(_, _)
HeadsBefore(seq, i) == IF i = 0 THEN 0 ELSE HeadsBefore(seq, i - 1) + HeadSize(seq[i])

RECURSIVE TailsBefore(_, _)
TailsBefore(seq, i) == IF i = 0 THEN 0 ELSE TailsBefore(seq, i - 1) + TailSize(seq[i])

\* The sequence seq is laid out in the buffer from byte position base: the
\* head slot of every dynamic element holds the distance from base to the
\* element's tail, which lies after all heads and the tails of the earlier
\* siblings and begins with the element's length word (PackedSeq, DynSeq) or
\* its own sequence (FixedSeq).
RECURSIVE LayoutOk(_, _)
LayoutOk(seq, base) ==
    \A i \in 1..Len(seq) :
        LET slot == base + HeadsBefore(seq, i - 1)
            dist == HeadsBefore(seq, Len(seq)) + TailsBefore(seq, i - 1)
            tail == base + dist
        IN  IF ~Token_is_dynamic(seq[i])
            THEN seq[i].tag = "Word" => WordAt(slot) = seq[i].word
            ELSE /\ slot + WordLen <= Len(data)
                 /\ Small(WordAt(slot)) /\ SmallValue(WordAt(slot)) = dist
                 /\ CASE seq[i].tag = "PackedSeq" ->
                            /\ Small(WordAt(tail))
                            /\ SmallValue(WordAt(tail)) = Len(seq[i].bytes)
                      [] seq[i].tag = "DynSeq" ->
                            /\ Small(WordAt(tail))
                            /\ SmallValue(WordAt(tail)) = Len(seq[i].seq)
                            /\ LayoutOk(seq[i].seq, tail + WordLen)
                      [] seq[i].tag = "FixedSeq" -> LayoutOk(seq[i].seq, tail)

\* C10: in the output of encode, the offset word in the head slot of every
\* dynamic element of every sequence (the top level, the payload of a nested
\* dynamic FixedSeq or DynSeq) is the distance from the start of that
\* sequence's encoding to the element's tail: the heads of all siblings plus
\* the tails of the earlier ones, the tails in sibling order.
C10_OffsetsPointAtTails ==
    (pc # "start" /\ tamper = "none")
        => (LayoutOk(tokens, 0)
            /\ Len(data) = HeadsBefore(tokens, Len(tokens)) + TailsBefore(tokens, Len(tokens)))

\* C10 happens: a dynamic element after a dynamic sibling with a non-empty
\* tail of its own elements.
C10_Witness ==
    /\ pc = "encoded" /\ tamper = "none"
    /\ Len(tokens) = 2
    /\ tokens[1].tag = "DynSeq" /\ Len(tokens[1].seq) = 2
    /\ Token_is_dynamic(tokens[1].seq[2])
    /\ tokens[2].tag = "PackedSeq"
    /\ LayoutOk(tokens, 0)

(***************************************************************************)
(* Properties of the descriptors.                                          *)
(***************************************************************************)
\* C2: tokenize/detokenize round-trip: for every descriptor D and every
\* native value v of D, D::detokenize(D::tokenize(v)) returns Ok(v); in
\* particular Bool::detokenize(Bool::tokenize(false)) is Ok(false).
C2_TokenizeRoundTrip ==
    (spc = "detokenized" /\ stoken = SolType_tokenize(sol, native))
        => (sback.tag = "Ok" /\ sback.value = native)

\* The descriptor D and the descriptors nested in it.
RECURSIVE SubTypes(_)
SubTypes(D) == {D} \cup UNION {SubTypes(D.sub[i]) : i \in 1..Len(D.sub)}

\* The token and the tokens nested in it.
RECURSIVE SubTokens(_)
SubTokens(token) == {token} \cup UNION {SubTokens(token.seq[i]) : i \in 1..Len(token.seq)}

\* C9: dynamism composes: FixedArray<T, N> is dynamic iff T is, a tuple iff
\* some field is, Bytes, String and Array are dynamic, Address, Bool, Int,
\* Uint, FixedBytes and Function are static; a DynSeq or PackedSeq token is
\* dynamic, a Word is not, a FixedSeq iff some child is.
C9_DynamismComposition ==
    /\ \A D \in SubTypes(sol) :
          CASE D.k = "FixedArray" -> SolType_is_dynamic(D) = SolType_is_dynamic(D.sub[1])
            [] D.k = "Tuple" ->
                  SolType_is_dynamic(D) = (\E i \in 1..Len(D.sub) : SolType_is_dynamic(D.sub[i]))
            [] D.k \in {"Bytes", "String", "Array"} -> SolType_is_dynamic(D)
            [] OTHER -> ~SolType_is_dynamic(D)
    /\ spc # "start" =>
          \A t \in SubTokens(stoken) :
              CASE t.tag \in {"DynSeq", "PackedSeq"} -> Token_is_dynamic(t)
                [] t.tag = "Word" -> ~Token_is_dynamic(t)
                [] t.tag = "FixedSeq" ->
                      Token_is_dynamic(t) = (\E i \in 1..Len(t.seq) : Token_is_dynamic(t.seq[i]))

\* C9 happens: a tuple with a static field and a fixed array of no elements
\* of a dynamic type, tokenized.
C9_Witness ==
    /\ spc = "tokenized"
    /\ sol = Tuple(<<Address, FixedArray(Bytes, 0)>>)
    /\ SolType_is_dynamic(sol)
    /\ ~Token_is_dynamic(stoken)

(***************************************************************************)
(* Properties of the byte strings and of the single words.                 *)
(***************************************************************************)
\* The tail of the i-th top-level token begins at this byte position.
TailPos(i) == HeadsBefore(tokens, Len(tokens)) + TailsBefore(tokens, i - 1)

\* ceil(n / 32)
CeilWords(n) == (n + 31) \div 32

\* From byte position pos the buffer holds the length word of bs, the bytes
\* of bs in order and zeros up to the next multiple of 32.
PaddedAt(pos, bs) ==
    /\ pos + WordLen * (1 + CeilWords(Len(bs))) <= Len(data)
    /\ WordAt(pos) = pad_u32(Len(bs))
    /\ \A j \in 1..(WordLen * CeilWords(Len(bs))) :
          data[pos + WordLen + j] = (IF j <= Len(bs) THEN bs[j] ELSE 0)

\* C11: byte-string padding: the tail of every PackedSeq of length L in the
\* output of encode is 1 + ceil(L/32) words: the length word holding L, the
\* payload bytes in order, the last word right-padded with zeros; the words
\* pad_bytes_len reserves are the words pad_bytes_append emits.
C11_BytesPadding ==
    (pc # "start" /\ tamper = "none")
        => \A i \in 1..Len(tokens) :
              tokens[i].tag = "PackedSeq" =>
                  LET bs == tokens[i].bytes
                  IN  /\ PaddedAt(TailPos(i), bs)
                      /\ pad_bytes_len(bs) = 1 + CeilWords(Len(bs))
                      /\ Len(pad_bytes_append(<<>>, bs)) = pad_bytes_len(bs)
                      /\ Len(tokens) = 1 => Len(data) = WordLen * (1 + pad_bytes_len(bs))

\* C11 happens: a payload that fills its last word exactly is encoded, in
\* three words with the offset word.
C11_Witness ==
    /\ pc = "encoded" /\ tamper = "none"
    /\ Len(tokens) = 1 /\ tokens[1].tag = "PackedSeq"
    /\ Len(tokens[1].bytes) = 32
    /\ \E j \in 1..32 : tokens[1].bytes[j] # 0
    /\ Len(data) = 3 * WordLen

\* The mediate and the mediates nested in it.
RECURSIVE SubMediates(_)
SubMediates(m) == {m} \cup UNION {SubMediates(m.ms[i]) : i \in 1..Len(m.ms)}

\* C12: encoder totality: encode returns a byte string for every token tree
\* at any nesting, empty sequences included; the panic! of
\* encode_token_append is not reached, as the Raw and Prefixed mediates are
\* built for Word and PackedSeq tokens only.
C12_EncoderTotal ==
    /\ encode(tokens).tag = "Ok"
    /\ \A i \in 1..Len(tokens) : \A m \in SubMediates(mediate_token(tokens[i])) :
          /\ m.m = "Raw" => m.token.tag = "Word"
          /\ m.m = "Prefixed" => m.token.tag = "PackedSeq"
    /\ (pc # "start" /\ tamper = "none") => data = encode(tokens).bytes

\* C12 happens: a token tree with a static fixed sequence of two words
\* inside a dynamic sequence is encoded.
C12_Witness ==
    /\ pc = "encoded" /\ tamper = "none"
    /\ \E i \in 1..Len(tokens) :
          /\ tokens[i].tag = "DynSeq"
          /\ \E j \in 1..Len(tokens[i].seq) :
                /\ tokens[i].seq[j].tag = "FixedSeq"
                /\ ~Token_is_dynamic(tokens[i].seq[j])
                /\ Len(tokens[i].seq[j].seq) = 2
    /\ data = encode(tokens).bytes /\ Len(data) > 0

\* The buffer is one word, requested as the one type t.
OneWordOf(t) == types = <<t>> /\ Len(data) = WordLen

\* C13: boolean check at decode time: decoding a Bool returns InvalidData
\* for every word whose value is neither 0 nor 1, in the lenient and in the
\* validating mode; only the words 0 and 1 are accepted.
C13_BoolChecked ==
    (Validated /\ OneWordOf(Bool))
        => /\ res.tag = "Ok" <=> data \in {pad_u32(0), pad_u32(1)}
           /\ vres.tag = "Ok" <=> data \in {pad_u32(0), pad_u32(1)}
           /\ res.tag \in {"Ok", "InvalidData"} /\ vres.tag \in {"Ok", "InvalidData"}

\* C14: the address check is unconditional: decoding an Address returns
\* InvalidData for every word whose high 12 bytes are not all zero, in the
\* lenient decode as well as in decode_validate.
C14_AddressChecked ==
    (Validated /\ OneWordOf(Address) /\ ~check_zeroes(SubSeq(data, 1, 12)))
        => (res.tag = "InvalidData" /\ vres.tag = "InvalidData")

\* C14 as the decoder has it: the high 12 bytes of an Address word are
\* checked in the validating mode only: decode_validate returns InvalidData
\* for every word whose high 12 bytes are not all zero, and decode returns
\* every 32-byte word unchanged.
C14_AddressCheckedWhenValidating ==
    (Validated /\ OneWordOf(Address))
        => /\ res.tag = "Ok" /\ res.tokens = <<Word(data)>>
           /\ IF check_zeroes(SubSeq(data, 1, 12))
              THEN vres.tag = "Ok" /\ vres.tokens = <<Word(data)>>
              ELSE vres.tag = "InvalidData"

\* C14 happens: an Address word with non-zero high bytes went through both
\* modes.
C14_Witness ==
    /\ Validated /\ OneWordOf(Address)
    /\ \E i \in 1..12 : data[i] # 0
    /\ res.tag = "Ok" /\ vres.tag = "InvalidData"

(***************************************************************************)
(* Properties of the tokens of native values.                              *)
(***************************************************************************)
\* The word holds the n big-endian two's-complement bytes of v in its low
\* bytes and the sign of v in every byte above them.
SignExtended(word, v, n) ==
    /\ SubSeq(word, WordLen - n + 1, WordLen) = to_be_bytes(v, n)
    /\ \A i \in 1..(WordLen - n) : word[i] = (IF v < 0 THEN 255 ELSE 0)

\* C15: sign extension: tokenizing a signed native integer v yields a word
\* whose low bytes are the big-endian two's-complement bytes of v and whose
\* high bytes are all 0xFF when v < 0 and all 0x00 when v >= 0, for
\* sol_type::Int<N>::tokenize and for Tokenize::to_token on i8, i16, i32,
\* i64 and isize.
C15_SignExtension ==
    (spc \in {"tokenized", "to_token"} /\ sol.k = "Int")
        => (stoken.tag = "Word" /\ SignExtended(stoken.word, native, ity_bytes(sol.n)))

\* Int<N>::tokenize taken alone extends the sign.
C15_IntTokenize ==
    (spc = "tokenized" /\ sol.k = "Int")
        => SignExtended(stoken.word, native, ity_bytes(sol.n))

(***************************************************************************)
(* Properties of the decoder's checks on single values.                    *)
(***************************************************************************)
\* Both modes accept the one-word buffer as FixedBytes(n) and return it
\* unchanged, or both return InvalidData.
FixedBytesOutcome(n, accepted) ==
    LET r == decode(<<FixedBytes(n)>>, data)
        v == decode_validate(<<FixedBytes(n)>>, data)
    IN  IF accepted
        THEN /\ r.tag = "Ok" /\ r.tokens = <<Word(data)>>
             /\ v.tag = "Ok" /\ v.tokens = <<Word(data)>>
        ELSE r.tag = "InvalidData" /\ v.tag = "InvalidData"

\* C16: FixedBytes rule: for n in 1..=32 and every word, decoding
\* FixedBytes(n) succeeds exactly when bytes n..32 of the word are all zero
\* (the all-zero word always, every word for n = 32), in decode and in
\* decode_validate alike, and the token returned is the word unchanged.
C16_FixedBytesRule ==
    /\ (Validated /\ Len(types) = 1 /\ types[1].k = "FixedBytes" /\ Len(data) = WordLen)
          => /\ res = decode(types, data) /\ vres = decode_validate(types, data)
             /\ FixedBytesOutcome(types[1].n, \A i \in (types[1].n + 1)..WordLen : data[i] = 0)
    /\ (Validated /\ Len(data) = WordLen)
          => \A n \in 1..32 :
                FixedBytesOutcome(n, \A i \in (n + 1)..WordLen : data[i] = 0)

\* C16 happens: a two-byte value with a non-zero byte after it was rejected
\* by both modes.
C16_Witness ==
    /\ Validated /\ OneWordOf(FixedBytes(2))
    /\ data[1] = 0 /\ data[32] # 0
    /\ res.tag = "InvalidData" /\ vres.tag = "InvalidData"

\* The token has the shape of the descriptor D at every level, and meets the
\* two constraints on values: a Bool word is 0 or 1, a String payload is
\* UTF-8.
RECURSIVE WellFormed(_, _)
WellFormed(D, t) ==
    CASE D.k = "Bool"   -> t.tag = "Word" /\ t.word \in {pad_u32(0), pad_u32(1)}
      [] D.k = "String" -> t.tag = "PackedSeq" /\ from_utf8_is_ok(t.bytes, 1)
      [] D.k = "Bytes"  -> t.tag = "PackedSeq"
      [] D.k = "Array"  ->
            t.tag = "DynSeq" /\ \A i \in 1..Len(t.seq) : WellFormed(D.sub[1], t.seq[i])
      [] D.k = "FixedArray" ->
            /\ t.tag = "FixedSeq" /\ Len(t.seq) = D.n
            /\ \A i \in 1..Len(t.seq) : WellFormed(D.sub[1], t.seq[i])
      [] D.k = "Tuple" ->
            /\ t.tag = "FixedSeq" /\ Len(t.seq) = Len(D.sub)
            /\ \A i \in 1..Len(t.seq) : WellFormed(D.sub[i], t.seq[i])
      [] OTHER -> t.tag = "Word"

\* C17: detokenize error contract: D::detokenize(t) returns Err(InvalidData)
\* and never panics whenever t has the wrong shape for D (variant, arity,
\* nested element) or violates a constraint on values (a Bool word other
\* than 0 and 1, a String payload that is not UTF-8); it returns Ok only for
\* tokens D::tokenize could have produced.
C17_DetokenizeContract ==
    spc = "detokenized"
        => /\ sback.tag \in {"Ok", "InvalidData"}
           /\ ~WellFormed(sol, stoken) => sback.tag = "InvalidData"

RECURSIVE Structural(_, _)
Structural(D, t) ==
    CASE D.k \in {"Bytes", "String"} -> t.tag = "PackedSeq"
      [] D.k = "Array"  ->
            t.tag = "DynSeq" /\ \A i \in 1..Len(t.seq) : Structural(D.sub[1], t.seq[i])
      [] D.k = "FixedArray" ->
            /\ t.tag = "FixedSeq" /\ Len(t.seq) = D.n
            /\ \A i \in 1..Len(t.seq) : Structural(D.sub[1], t.seq[i])
      [] D.k = "Tuple" ->
            /\ t.tag = "FixedSeq" /\ Len(t.seq) = Len(D.sub)
            /\ \A i \in 1..Len(t.seq) : Structural(D.sub[i], t.seq[i])
      [] OTHER -> t.tag = "Word"

\* Descriptors whose type_check reads the value of a word or a payload too.
ValueChecked(D) == \E X \in SubTypes(D) : X.k \in {"Bool", "String", "Function"}

\* C19: type_check is exactly structural matching: it returns true iff a
\* word-backed descriptor gets a Word, Bytes and String a PackedSeq, Array a
\* DynSeq all of whose elements match, FixedArray and Tuple a FixedSeq of the
\* exact arity whose elements match pairwise; for SolType::type_check,
\* sol_type::Array<T> included, as for Token::type_check.
C19_TypeCheckStructural ==
    (spc \in {"tokenized", "substituted"} /\ ~ValueChecked(sol))
        => /\ SolType_type_check(sol, stoken) = Structural(sol, stoken)
           /\ type_check(stoken, sol) = Structural(sol, stoken)

\* The buffer is read as one byte string: the offset word and the length
\* word it points at are small and inside the buffer.
OneByteString ==
    /\ types \in {<<Bytes>>, <<String>>}
    /\ Len(data) >= WordLen /\ Small(WordAt(0))
    /\ SmallValue(WordAt(0)) + WordLen <= Len(data)
    /\ Small(WordAt(SmallValue(WordAt(0))))

\* The position p of the payload and its length len.
PayloadPos == SmallValue(WordAt(0)) + WordLen

PayloadLen == SmallValue(WordAt(SmallValue(WordAt(0))))

\* The region [p + len, p + roundup32(len)) extends past the buffer or holds
\* a non-zero byte.
BadPadding ==
    LET padded_end == PayloadPos + WordLen * CeilWords(PayloadLen)
    IN  \/ padded_end > Len(data)
        \/ \E j \in (PayloadPos + PayloadLen + 1)..padded_end : data[j] # 0

\* C20: the tail padding of a byte string is checked in validating mode
\* only: for Bytes or String with length len at payload position p,
\* decode_validate fails with InvalidData iff the region
\* [p + len, p + roundup32(len)) extends past the buffer or contains a
\* non-zero byte, whereas decode requires only p + len <= data.len() and
\* accepts non-zero or missing padding.
C20_PaddingWhenValidating ==
    (Validated /\ OneByteString)
        => /\ vres.tag = "InvalidData" <=> BadPadding
           /\ vres.tag \in {"Ok", "InvalidData"}
           /\ res.tag = "Ok" <=> PayloadPos + PayloadLen <= Len(data)
           /\ res.tag \in {"Ok", "InvalidData"}

(***************************************************************************)
(* Properties of the validating mode on numbers.                           *)
(***************************************************************************)
\* The bytes of the word above the low n bytes are the padding of a number:
\* zeros for an unsigned one, the sign of the low bytes for a signed one.
CanonicalPadding(word, signed, n) ==
    \A i \in 1..(WordLen - n) :
        word[i] = (IF signed /\ word[WordLen - n + 1] >= 128 THEN 255 ELSE 0)

\* C21: decode_validate checks numeric padding: for Uint(N) and Int(N) with
\* N < 256, decode_validate returns InvalidData for every word whose bytes
\* above the low N/8 bytes are not the canonical padding (all zero for
\* Uint, the sign extension of the value for Int).
C21_NumericPaddingChecked ==
    (/\ Validated /\ Len(types) = 1 /\ Len(data) = WordLen
     /\ types[1].k \in {"Int", "Uint"} /\ types[1].n < 256
     /\ ~CanonicalPadding(data, types[1].k = "Int", types[1].n \div 8))
        => vres.tag = "InvalidData"

(***************************************************************************)
(* Properties of the two representations of a type.                        *)
(***************************************************************************)
\* C22: the two type representations decode identically: for every type
\* shape that is both a ParamType and a SolType and every byte buffer,
\* SolType::read_token(data, 0) succeeds iff the lenient
\* decode(&[param], data) succeeds, and both yield the same Token.  (Stated
\* for the buffers that hold a byte; the empty one is the matter of C8.)
C22_ReadTokenAsDecode ==
    (pc = "read" /\ data # <<>>)
        => /\ rres.tag = "Ok" <=> res.tag = "Ok"
           /\ rres.tag = "Ok" => <<rres.token>> = res.tokens

(***************************************************************************)
(* Properties of the encoder's layout.                                     *)
(***************************************************************************)
\* The token holds no DynSeq and no PackedSeq at any depth.
AllStatic(seq) == \A i \in 1..Len(seq) : \A t \in SubTokens(seq[i]) : t.tag \in {"Word", "FixedSeq"}

\* The leaf words of the tokens of a static sequence, left to right.
RECURSIVE LeafWords(_)
LeafWords(seq) ==
    IF seq = <<>> THEN <<>>
    ELSE (IF Head(seq).tag = "Word" THEN <<Head(seq).word>> ELSE LeafWords(Head(seq).seq))
         \o LeafWords(Tail(seq))

\* C23: static values are encoded in place with no prefix: for every list ts
\* of static tokens (Words and FixedSeqs with no DynSeq or PackedSeq at any
\* depth), encode([FixedSeq(ts)]) = encode(ts) = the concatenation of all
\* leaf words from left to right, with no offset or length word.
C23_StaticInPlace ==
    (pc # "start" /\ tamper = "none" /\ AllStatic(tokens))
        => /\ data = Flatten(LeafWords(tokens))
           /\ encode(<<FixedSeq(tokens)>>).bytes = data

\* C23 happens: a fixed sequence of fixed sequences of two words each is
\* encoded beside nothing else.
C23_Witness ==
    /\ pc = "encoded" /\ tamper = "none" /\ AllStatic(tokens)
    /\ Len(tokens) = 1 /\ tokens[1].tag = "FixedSeq"
    /\ Len(tokens[1].seq) = 1 /\ tokens[1].seq[1].tag = "FixedSeq"
    /\ Len(tokens[1].seq[1].seq) = 2
    /\ Len(data) = 2 * WordLen

\* C24: dynamic array layout: encode([DynSeq(ts)]) is the offset word 0x20,
\* a length word holding |ts| and encode(ts), the head/tail encoding of the
\* elements with offsets counted from the byte after the length word; an
\* empty DynSeq is the offset word and a zero length word.
C24_DynSeqLayout ==
    /\ (pc # "start" /\ tamper = "none" /\ Len(tokens) = 1 /\ tokens[1].tag = "DynSeq")
          => /\ data = pad_u32(32) \o pad_u32(Len(tokens[1].seq)) \o encode(tokens[1].seq).bytes
             /\ tokens[1].seq = <<>> => data = pad_u32(32) \o pad_u32(0)
    /\ (pc # "start" /\ tamper = "none")
          => encode(<<DynSeq(tokens)>>).bytes = pad_u32(32) \o pad_u32(Len(tokens)) \o data

\* C24 happens: a dynamic sequence of two dynamic sequences, one of them
\* with elements, is encoded.
C24_Witness ==
    /\ pc = "encoded" /\ tamper = "none"
    /\ Len(tokens) = 1 /\ tokens[1].tag = "DynSeq"
    /\ Len(tokens[1].seq) = 2
    /\ tokens[1].seq[1].tag = "DynSeq" /\ Len(tokens[1].seq[1].seq) >= 1
    /\ data = pad_u32(32) \o pad_u32(2) \o encode(tokens[1].seq).bytes

(***************************************************************************)
(* Properties of the decoder's running offset.                             *)
(***************************************************************************)
\* The bytes a value of the type takes among the heads: one offset word when
\* it is dynamic, its words when it is static.
HeadBytes(t) == IF ParamType_is_dynamic(t) THEN WordLen ELSE StaticSize(t)

RECURSIVE HeadBytesBefore(_, _)
HeadBytesBefore(tys, i) ==
    IF i = 0 THEN 0 ELSE HeadBytesBefore(tys, i - 1) + HeadBytes(tys[i])

\* C25: running offset of the decoder: wherever decode_param succeeds on a
\* type at an offset o, the new_offset it returns is o + 32 when the type is
\* dynamic, whatever the size of its tail and the offsets reached inside
\* the sub-buffer, and o + 32 * (number of head words) when it is static,
\* so that the next sibling is read from the next head slot.
C25_RunningOffset ==
    /\ (Decoded /\ res.tag = "Ok") => res.offset = HeadBytesBefore(types, Len(types))
    /\ Decoded =>
          \A i \in 1..Len(types) : \A o \in {0, WordLen} :
              LET r == decode_param(types[i], data, o, FALSE)
              IN  r.tag = "Ok" => r.new_offset = o + HeadBytes(types[i])

\* C25 happens: a dynamic tuple with a tail of several words was decoded
\* before a sibling.
C25_Witness ==
    /\ Decoded /\ res.tag = "Ok" /\ tamper = "none"
    /\ Len(types) = 2 /\ types[1].k = "Tuple" /\ ParamType_is_dynamic(types[1])
    /\ Len(data) > 6 * WordLen
    /\ res.tokens = tokens /\ res.offset = 2 * WordLen

\* The sum of head_len + tail_len over the mediates of the first i tokens.
RECURSIVE LensBefore(_, _)
LensBefore(seq, i) ==
    IF i = 0 THEN 0
    ELSE LensBefore(seq, i - 1) + head_len(mediate_token(seq[i]))
                                + tail_len(mediate_token(seq[i]))

\* C26: encoded length: the length of encode(tokens) is a multiple of 32 and
\* is the sum over the top-level mediates of head_len + tail_len; the
\* lengths of the first pass are the bytes the second pass appends, at
\* every nesting level.
C26_EncodedLength ==
    (pc # "start" /\ tamper = "none")
        => /\ Len(data) % 32 = 0
           /\ Len(data) = LensBefore(tokens, Len(tokens))
           /\ \A i \in 1..Len(tokens) : \A m \in SubMediates(mediate_token(tokens[i])) :
                 /\ head_len(m) = WordLen * Len(head_append(m, <<>>, 0))
                 /\ tail_len(m) = WordLen * Len(tail_append(m, <<>>))

\* C26 happens: a dynamic sequence of byte strings, with tails at two
\* levels, is encoded.
C26_Witness ==
    /\ pc = "encoded" /\ tamper = "none"
    /\ \E i \in 1..Len(tokens) :
          /\ tokens[i].tag = "DynSeq" /\ Len(tokens[i].seq) = 2
          /\ tokens[i].seq[1].tag = "PackedSeq"
          /\ tail_len(mediate_token(tokens[i])) > 4 * WordLen
    /\ Len(data) = LensBefore(tokens, Len(tokens))

\* the to_token of exactly the fields that are not marked #[abi_skip], in
\* declaration order
KeptFieldTokens ==
    LET kept == SelectSeq(dfields, LAMBDA f : ~f.skip)
    IN  [j \in 1..Len(kept) |->
            Word([i \in 1..WordLen |-> IF i = WordLen THEN kept[j].value ELSE 0])]

\* C27: the derived to_token of a named struct and of a tuple struct returns
\* FixedSeq of the to_token of exactly the fields not marked #[abi_skip], in
\* declaration order, wherever the skipped field stands.
C27_DeriveKeepsOrderAndSkips ==
    dpc = "done" => dtoken = FixedSeq(KeptFieldTokens)

(***************************************************************************)
(* Dynamism on the two sides of the codec.                                 *)
(***************************************************************************)
\* C28: the encoder and the decoder agree on dynamism: for a token that
\* type-checks against its descriptor, Token::is_dynamic of the token (what
\* the encoder lays out by) equals is_dynamic of the descriptor (what the
\* decoder reads by), fixed arrays of no elements included.
C28_DynamismAgrees ==
    (spc = "tokenized" /\ SolType_type_check(sol, stoken))
        => Token_is_dynamic(stoken) = SolType_is_dynamic(sol)

(***************************************************************************)
(* The two modes of the decoder on one buffer.                             *)
(***************************************************************************)
\* C29: strict mode only removes acceptances: whenever decode_validate
\* returns Ok(ts) for a type list and a buffer, decode returns Ok(ts) for
\* them, with the same token list.
C29_StrictOnlyRemoves ==
    (pc \in {"validated", "read"} /\ vres.tag = "Ok")
        => (res.tag = "Ok" /\ res.tokens = vres.tokens)

\* C29 happens: decode_validate accepts a buffer that holds a byte string
\* whose length is no multiple of 32, so that padding was checked and left
\* out of the token.
C29_Witness ==
    /\ pc = "validated"
    /\ vres.tag = "Ok"
    /\ \E i \in 1..Len(vres.tokens) :
          /\ vres.tokens[i].tag = "PackedSeq"
          /\ Len(vres.tokens[i].bytes) % 32 # 0

(***************************************************************************)
(* The call future.                                                        *)
(***************************************************************************)
\* One poll of the call, as C30 describes it.
CallStep ==
    /\ (cstate = "Prepared" /\ cparams.kind = "Seq") =>
          /\ cstate' = "AwaitingResponse"
          /\ Len(crequests') = Len(crequests) + 1
          /\ crequests'[Len(crequests')].id = cid
          /\ crequests'[Len(crequests')].method = cmethod
          /\ cwakes' = cwakes + 1
          /\ cret' = PollPending
    /\ (cstate = "Prepared" /\ cparams.kind = "Map") =>
          /\ cstate' = "Complete"
          /\ cret' = PollReady("SerdeError")
          /\ crequests' = crequests
    /\ cstate = "AwaitingResponse" =>
          /\ crequests' = crequests
          /\ \/ cret' = PollPending /\ cstate' = "AwaitingResponse"
             \/ cret'.poll = "Ready" /\ cstate' = "Complete"
    /\ cstate = "Complete" => (cret' = PollPanic /\ cstate' = "Complete")
    /\ cret'.poll \in {"Pending", "Ready"} => cstate' \notin {"Running", "Prepared"}

\* C30: a call created in Prepared and polled: the first poll serializes the
\* params and either issues exactly one json_rpc_request, moves to
\* AwaitingResponse, wakes the waker and returns Pending, or, the params not
\* serializing, moves to Complete and returns the error with no request
\* issued; later polls keep AwaitingResponse while the inner future is
\* pending and move to Complete exactly when they return Ready; after a poll
\* returned the state is never Running or Prepared, no second request is
\* ever issued, and polling a Complete call panics.
C30_CallStateMachine ==
    /\ [][CallStep]_vars
    /\ [](Len(crequests) <= 1)
    /\ []((cstate = "Complete") <=> (cret.poll = "Ready" \/ (cret.poll = "Panic" /\ cpolls > 1)))

\* C30 happens: a call that was pending, then ready, then polled once more.
C30_Witness ==
    /\ cstate = "Complete"
    /\ cret = PollPanic
    /\ Len(crequests) = 1
    /\ cwakes = 1
    /\ cpolls > 3

====
